---- MODULE Spec2Model ----
(***************************************************************************)
(* Model of the Clash subscription merger: ClashSubscriptionMerger.run     *)
(* (download, extract, aggregate, generate) and of the pure functions it   *)
(* is built from (base64 detection, proxy extraction, normalisation,       *)
(* validation, document generation).                                       *)
(*                                                                         *)
(* Texts are modelled by their parse: a payload is a body (a structured    *)
(* document, or text that is no document) under a number of base64         *)
(* wrappings, and its length in characters is computed from the body.      *)
(* Documents are taken in trimmed form.  The source's Chinese group names  *)
(* are written in pinyin, because the module is ASCII:                     *)
(*   ShouDongXuanZe = manual select, ZiDongXuanZe = automatic select,      *)
(*   GuZhangZhuanYi = fallback.                                            *)
(***************************************************************************)
EXTENDS Integers, Sequences, FiniteSets, TLC

\* ------------------------------------------------------------------ bounds
MaxSources == 2
MaxProxies == 2
MaxLinks == 2

\* ------------------------------------------------------- program constants
B64MinRun == 50
B64MinLen == 100
HashMod == 10000
UrlTestInterval == 86400
FallbackInterval == 7200

ManualSelect == "ShouDongXuanZe"
AutoSelect == "ZiDongXuanZe"
Fallback == "GuZhangZhuanYi"
TestUrl == "http://www.gstatic.com/generate_204"

\* ------------------------------------------------------------ proxy dicts
\* A proxy mapping is a function from field names to values (a Python dict).
GoodA == [name |-> "A", type |-> "ss", server |-> "h1", port |-> 443]
GoodB == [name |-> "B", type |-> "trojan", server |-> "h2", port |-> 8443,
          password |-> "pw"]
DupA == [name |-> "A", type |-> "vmess", server |-> "h3", port |-> 80,
         uuid |-> "u1"]
NoPort == [name |-> "C", type |-> "ss", server |-> "h1"]
EmptyName == [name |-> "", type |-> "ss", server |-> "h1", port |-> 443]
EmptyServer == [name |-> "E", type |-> "ss", server |-> "", port |-> 443]
NoName == [type |-> "ss", server |-> "h4", port |-> 1080]
NoTypePw == [name |-> "D", server |-> "h5", port |-> 443, password |-> "pw"]
Tuic == [name |-> "T", type |-> "tuic", server |-> "h6", port |-> 443]

\* An element of a document's proxies collection: a mapping, or a scalar
\* that is neither a mapping nor a string (an integer, say).
MapElem(d) == [kind |-> "map", val |-> d]
ScalarElem == [kind |-> "other", val |-> [scalar |-> 7]]

\* A mapping with a field that YAML reads as a date (expire: 2024-01-01).
DatedA == [name |-> "A", type |-> "ss", server |-> "h1", port |-> 443,
           expire |-> [date |-> "2024-01-01"]]

\* ------------------------------------------------------------------- JSON
\* The kind of value a field holds.
NumberKeys == {"port", "alterId", "max-early-data"}
BoolKeys == {"udp", "tls", "skip-cert-verify"}
ObjectKeys == {"ws-opts", "reality-opts", "headers"}
DateKeys == {"expire"}

\* json.dumps(d, ensure_ascii=False, separators=(',', ':')): the members of
\* the object text, each value as the token written for it.  A date is not
\* serializable and raises TypeError.
RECURSIVE JsonMembers(_)
JsonMembers(d) ==
  [k \in DOMAIN d |->
     IF k \in NumberKeys THEN [t |-> "number", s |-> ToString(d[k])]
     ELSE IF k \in BoolKeys
     THEN [t |-> "literal", s |-> IF d[k] THEN "true" ELSE "false"]
     ELSE IF k \in ObjectKeys THEN [t |-> "object", s |-> JsonMembers(d[k])]
     ELSE [t |-> "string", s |-> d[k]]]

RECURSIVE JsonSerializable(_)
JsonSerializable(d) ==
  \A k \in DOMAIN d :
    /\ k \notin DateKeys
    /\ (k \in ObjectKeys => JsonSerializable(d[k]))

\* The text of digits back to the number (the numbers of this model).
NumberOf(s) ==
  CHOOSE n \in {0, 2, 80, 443, 1080, 2048, 8388, 8443} : ToString(n) = s

\* json.loads of an object text.
RECURSIVE JsonLoads(_)
JsonLoads(members) ==
  [k \in DOMAIN members |->
     CASE members[k].t = "number" -> NumberOf(members[k].s)
       [] members[k].t = "literal" -> (members[k].s = "true")
       [] members[k].t = "object" -> JsonLoads(members[k].s)
       [] OTHER -> members[k].s]

\* A string: the text before a compact JSON object, and the object text;
\* or a text that holds no JSON object (colon: it has a ':').
JsonString(prefix, members) ==
  [prefix |-> prefix, json |-> TRUE, members |-> members, colon |-> TRUE]
TextString(colon) ==
  [prefix |-> "", json |-> FALSE, members |-> <<>>, colon |-> colon]

\* An element of the proxies collection that is a string.
StrElem(s) == [kind |-> "str", val |-> s]

\* ------------------------------------------------------------------ texts
DocBody(ps, hasProxies, extra) ==
  [kind |-> "doc", proxies |-> ps, hasProxies |-> hasProxies, extra |-> extra]
JunkBody == [kind |-> "junk", proxies |-> <<>>, hasProxies |-> FALSE, extra |-> FALSE]
EmptyBody == [kind |-> "empty", proxies |-> <<>>, hasProxies |-> FALSE, extra |-> FALSE]

\* A line of base64 alphabet that base64.b64decode rejects: 101 data
\* characters, one more than a multiple of four.
BadB64Text ==
  "AAAAAAAAAAAAAAAAAAAAAAAAAAAAAAAAAAAAAAAAAAAAAAAAAA" \o
  "AAAAAAAAAAAAAAAAAAAAAAAAAAAAAAAAAAAAAAAAAAAAAAAAAAA"
BadB64Body == [kind |-> "b64bad", proxies |-> <<>>, hasProxies |-> FALSE, extra |-> FALSE]

Plain(body) == [wraps |-> 0, body |-> body]
NoText == Plain(EmptyBody)

RECURSIVE SumSeq(_)
SumSeq(s) == IF s = <<>> THEN 0 ELSE Head(s) + SumSeq(Tail(s))

\* ------------------------------------------------------------ share links
\* A share-link line is kept as the pieces download_subscription splits its
\* text into: scheme://userinfo@server_addr?query#fragment, the userinfo and
\* the server address as their colon-separated parts, the query as its
\* '&'-separated items.  A vmess link carries a payload instead.
NoUserinfo == [at |-> FALSE, parts |-> <<>>]
Userinfo(parts) == [at |-> TRUE, parts |-> parts]

ServerAddr(parts, slash) == [parts |-> parts, slash |-> slash]

NoQuery == [mark |-> FALSE, items |-> <<>>]
Query(items) == [mark |-> TRUE, items |-> items]
Param(key, value) == [key |-> key, eq |-> TRUE, value |-> value]
BareParam(key) == [key |-> key, eq |-> FALSE, value |-> ""]

NoFragment == [hash |-> FALSE, text |-> ""]
Fragment(text) == [hash |-> TRUE, text |-> text]

NoPayload == [decodes |-> FALSE, json |-> <<>>]
Payload(json) == [decodes |-> TRUE, json |-> json]

Link(scheme, userinfo, server_addr, query, fragment) ==
  [kind |-> "link", scheme |-> scheme, userinfo |-> userinfo,
   server_addr |-> server_addr, query |-> query, fragment |-> fragment,
   payload |-> NoPayload]

VmessLink(payload, fragment) ==
  [kind |-> "link", scheme |-> "vmess", userinfo |-> NoUserinfo,
   server_addr |-> ServerAddr(<<>>, FALSE), query |-> NoQuery,
   fragment |-> fragment, payload |-> payload]

\* A line that starts with '#'.
CommentLine ==
  [kind |-> "comment", scheme |-> "", userinfo |-> NoUserinfo,
   server_addr |-> ServerAddr(<<>>, FALSE), query |-> NoQuery,
   fragment |-> NoFragment, payload |-> NoPayload]

\* The keys a vmess payload is read for; its values are texts, but for
\* "aid", which is a number.
VmessKeys == <<"add", "address", "port", "id", "aid", "scy", "net", "tls", "sni">>

\* sep.join(parts)
RECURSIVE Join(_, _)
Join(parts, sep) ==
  IF parts = <<>> THEN ""
  ELSE IF Len(parts) = 1 THEN parts[1]
  ELSE parts[1] \o sep \o Join(Tail(parts), sep)

Front(s) == SubSeq(s, 1, Len(s) - 1)
Last(s) == s[Len(s)]

DigitLen(n) == IF n < 10 THEN 1 ELSE IF n < 100 THEN 2 ELSE IF n < 1000 THEN 3
               ELSE IF n < 10000 THEN 4 ELSE 5

\* Characters of a line.
ItemLen(item) == Len(item.key) + (IF item.eq THEN 1 + Len(item.value) ELSE 0)

PayloadLen(payload) ==
  IF payload.decodes
  THEN 4 * ((SumSeq([k \in 1..Len(VmessKeys) |->
                      IF VmessKeys[k] \in DOMAIN payload.json
                      THEN Len(VmessKeys[k]) + 6
                           + (IF VmessKeys[k] = "aid"
                              THEN DigitLen(payload.json["aid"])
                              ELSE Len(payload.json[VmessKeys[k]]))
                      ELSE 0]) + 3) \div 3)
  ELSE Len("not-base64!")

LineLen(line) ==
  IF line.kind = "comment" THEN Len("# nodes")
  ELSE Len(line.scheme) + Len("://")
       + (IF line.scheme = "vmess" THEN PayloadLen(line.payload) ELSE 0)
       + (IF line.userinfo.at THEN Len(Join(line.userinfo.parts, ":")) + 1 ELSE 0)
       + Len(Join(line.server_addr.parts, ":"))
       + (IF line.server_addr.slash THEN 1 ELSE 0)
       + (IF line.query.mark
          THEN 1 + SumSeq([k \in 1..Len(line.query.items) |->
                             ItemLen(line.query.items[k]) + 1])
          ELSE 0)
       + (IF line.fragment.hash THEN 1 + Len(line.fragment.text) ELSE 0)

\* A share-link list: its lines.
LinksBody(lines) ==
  [kind |-> "links", proxies |-> <<>>, hasProxies |-> FALSE, extra |-> FALSE,
   lines |-> lines]

\* A document with a proxies collection, followed by lines of their own.
MixedBody(ps, lines) ==
  [kind |-> "mixed", proxies |-> ps, hasProxies |-> TRUE, extra |-> FALSE,
   lines |-> lines]

FieldOrder == <<"name", "type", "server", "port", "password", "uuid", "auth">>

\* Characters of "key: value" in a flow mapping.
FieldLen(d, k) ==
  IF k \notin DOMAIN d THEN 0
  ELSE Len(k) + 2 + (IF k = "port" THEN DigitLen(d[k])
                     ELSE IF d[k] = "" THEN 2 ELSE Len(d[k]))

\* Characters of the line "  - {k: v, k: v}\n".
\* Characters of a compact JSON object text.
RECURSIVE MembersLen(_)
MembersLen(members) ==
  IF DOMAIN members = {} THEN 2
  ELSE LET k == CHOOSE j \in DOMAIN members : TRUE
           rest == [j \in DOMAIN members \ {k} |-> members[j]]
           token == members[k]
       IN Len(k) + 3
          + (CASE token.t = "string" -> Len(token.s) + 2
               [] token.t = "object" -> MembersLen(token.s)
               [] OTHER -> Len(token.s))
          + (IF DOMAIN rest = {} THEN 2 ELSE 1 + MembersLen(rest) - 2)

\* Characters of a string element, in single quotes.
StrLen(s) ==
  2 + Len(s.prefix)
  + (IF s.json THEN MembersLen(s.members)
     ELSE IF s.colon THEN Len("server: h1") ELSE Len("direct"))

ElemLen(e) ==
  IF e.kind = "str" THEN 4 + StrLen(e.val) + 1
  ELSE IF e.kind = "map"
  THEN 4 + 2 + SumSeq([i \in 1..Len(FieldOrder) |-> FieldLen(e.val, FieldOrder[i])])
         + 2 * (Cardinality(DOMAIN e.val) - 1) + 1
  ELSE 4 + 1 + 1

BodyLen(b) ==
  CASE b.kind = "doc" ->
         (IF b.hasProxies THEN Len("proxies:") + 1 ELSE 0)
         + SumSeq([i \in 1..Len(b.proxies) |-> ElemLen(b.proxies[i])])
         + (IF b.extra THEN Len("mode: rule") + 1 ELSE 0)
    [] b.kind = "junk" -> Len("<html>error</html>")
    [] b.kind = "b64bad" -> Len(BadB64Text)
    [] b.kind = "links" ->
         SumSeq([i \in 1..Len(b.lines) |-> LineLen(b.lines[i]) + 1])
    [] b.kind = "mixed" ->
         Len("proxies:") + 1
         + SumSeq([i \in 1..Len(b.proxies) |-> ElemLen(b.proxies[i])])
         + SumSeq([i \in 1..Len(b.lines) |-> LineLen(b.lines[i]) + 1])
    [] OTHER -> 0

\* base64.b64encode: 4 characters for every 3 bytes, the last group padded.
B64Len(n) == 4 * ((n + 2) \div 3)
B64Pad(n) == (3 - (n % 3)) % 3

RECURSIVE TextLen(_)
TextLen(t) ==
  IF t.wraps = 0 THEN BodyLen(t.body)
  ELSE B64Len(TextLen([t EXCEPT !.wraps = t.wraps - 1]))

B64Encode(t) == [t EXCEPT !.wraps = t.wraps + 1]
B64Decode(t) == [t EXCEPT !.wraps = t.wraps - 1]

\* base64.b64decode(content).decode('utf-8') returns: the text is the
\* encoding of a text.
Decodable(t) == t.wraps > 0

\* The text is one line of base64 alphabet, padding apart.
B64Alphabet(t) == t.wraps > 0 \/ t.body.kind = "b64bad"

\* The characters before the padding.
B64Run(t) ==
  IF t.wraps > 0 THEN TextLen(t) - B64Pad(TextLen(B64Decode(t))) ELSE TextLen(t)

\* Mutant: the length test asks for twice the length.
MatchesBase64LongOnly(t) ==
  /\ B64Alphabet(t)
  /\ B64Run(t) >= B64MinRun
  /\ TextLen(t) > 2 * B64MinLen

\* re.match(r'^[a-zA-Z0-9+/]{50,}(={0,2})?$', content) and len(content) > 100
MatchesBase64(t) ==
  /\ B64Alphabet(t)
  /\ B64Run(t) >= B64MinRun
  /\ TextLen(t) > B64MinLen

\* ---------------------------------------------------------------- state
VARIABLES
  config_exists,     \* the subscription config file exists
  subscriptions,     \* its entries, in file order: filename, URL, what the URL serves
  dry_run,           \* run's argument
  pyhash,            \* hash(str(proxy)) of this process, per nameless mapping
  pc,                \* position in run (or in the extraction harness)
  i,                 \* index of the loop in progress
  files,             \* download directory: filename -> [exists, text]
  downloaded_files,  \* run's list of downloaded paths
  all_proxies,       \* run's aggregated record list
  output,            \* output directory: the merged file and the preview file
  generator_calls,   \* number of calls of generate_config
  result,            \* run's return value: "none" while running, "true", "false"
  fs_failed,         \* the file system refused the output directory or the write
  doc,               \* extraction harness: the document under test
  res                \* harnesses: results per variant; SpecRerun: the outcomes
                     \* of the runs that have ended

vars == <<config_exists, subscriptions, dry_run, pyhash, pc, i, files,
          downloaded_files, all_proxies, output, generator_calls, result,
          fs_failed, doc, res>>

\* ------------------------------------------------------- YAML processor
AddField(d, k, v) == [f \in (DOMAIN d) \cup {k} |-> IF f = k THEN v ELSE d[f]]

\* f"proxy_{hash(str(proxy)) % 10000}"
SynthName(d) == "proxy_" \o ToString(pyhash[d] % HashMod)

\* Mutant: uuid is looked for first.
InferTypeUuidFirst(d) ==
  IF "uuid" \in DOMAIN d THEN "vmess"
  ELSE IF "password" \in DOMAIN d /\ "server" \in DOMAIN d THEN "trojan"
  ELSE IF "auth" \in DOMAIN d THEN "socks5"
  ELSE "unknown"

InferType(d) ==
  IF "password" \in DOMAIN d /\ "server" \in DOMAIN d THEN "trojan"
  ELSE IF "uuid" \in DOMAIN d THEN "vmess"
  ELSE IF "auth" \in DOMAIN d THEN "socks5"
  ELSE "unknown"

normalize_proxy_dict(proxy) ==
  LET named == IF "name" \notin DOMAIN proxy
               THEN AddField(proxy, "name", SynthName(proxy)) ELSE proxy
  IN IF "type" \notin DOMAIN named
     THEN AddField(named, "type", InferType(named)) ELSE named

NoneVal == [some |-> FALSE, val |-> <<>>]
Some(v) == [some |-> TRUE, val |-> v]

\* What yaml.safe_load(f"- {proxy_str}") returns: a list of one item, which
\* is no mapping and has no key.
YamlList == [yaml_list |-> TRUE]

\* proxy_str.strip() starts with '{': nothing but blanks before the object.
OnlyBlanks(prefix) == prefix \in {"", " ", "  "}

\* Mutant: the JSON form is not tried.
ParseStringWithoutJson(proxy_str) ==
  IF proxy_str.colon THEN Some(YamlList) ELSE NoneVal

\* _parse_proxy_string: JSON when the text is a braced object, else one
\* YAML list entry when it has a colon, else nothing.
parse_proxy_string(proxy_str) ==
  IF proxy_str.json /\ OnlyBlanks(proxy_str.prefix)
  THEN Some(JsonLoads(proxy_str.members))
  ELSE IF proxy_str.colon THEN Some(YamlList)
  ELSE NoneVal

\* A mapping is normalised; a string is parsed as an embedded record; any
\* other element is dropped.
process_proxy_config(proxy) ==
  IF proxy.kind = "map" THEN Some(normalize_proxy_dict(proxy.val))
  ELSE IF proxy.kind = "str" THEN parse_proxy_string(proxy.val)
  ELSE NoneVal

\* Mutant: the port is not required.
ValidateWithoutPort(proxy) ==
  /\ "name" \in DOMAIN proxy /\ proxy["name"] # ""
  /\ "type" \in DOMAIN proxy
  /\ "server" \in DOMAIN proxy /\ proxy["server"] # ""

validate_proxy(proxy) ==
  /\ "name" \in DOMAIN proxy /\ proxy["name"] # ""
  /\ "type" \in DOMAIN proxy
  /\ "server" \in DOMAIN proxy /\ proxy["server"] # ""
  /\ "port" \in DOMAIN proxy

\* One pass of the loop over the proxies collection: the record kept for
\* this element, or nothing.
KeepProxy(proxy) ==
  LET processed == process_proxy_config(proxy)
  IN IF processed.some /\ DOMAIN processed.val # {} /\ validate_proxy(processed.val)
     THEN <<processed.val>> ELSE <<>>

\* Mutant: each kept record is put in front of the list.
RECURSIVE ProcessProxiesReversed(_)
ProcessProxiesReversed(proxies) ==
  IF proxies = <<>> THEN <<>>
  ELSE ProcessProxiesReversed(Tail(proxies)) \o KeepProxy(Head(proxies))

RECURSIVE ProcessProxies(_)
ProcessProxies(proxies) ==
  IF proxies = <<>> THEN <<>>
  ELSE KeepProxy(Head(proxies)) \o ProcessProxies(Tail(proxies))

\* yaml.safe_load: a mapping for a document, a scalar for any other
\* non-empty text (undecoded base64 included), None for an empty text.
parse_yaml_content(content) ==
  IF content.wraps > 0 THEN [kind |-> "scalar", hasProxies |-> FALSE, proxies |-> <<>>]
  ELSE CASE content.body.kind = "doc" ->
              [kind |-> "map", hasProxies |-> content.body.hasProxies,
               proxies |-> content.body.proxies]
         [] content.body.kind \in {"junk", "b64bad", "links"} ->
              [kind |-> "scalar", hasProxies |-> FALSE, proxies |-> <<>>]
         [] content.body.kind = "mixed" ->
              IF \A k \in 1..Len(content.body.lines) :
                   content.body.lines[k].kind = "comment"
              THEN [kind |-> "map", hasProxies |-> TRUE,
                    proxies |-> content.body.proxies]
              ELSE [kind |-> "none", hasProxies |-> FALSE, proxies |-> <<>>]
         [] OTHER -> [kind |-> "none", hasProxies |-> FALSE, proxies |-> <<>>]

\* The base64 branch of extract_proxies: the text that is parsed, and the
\* decoded copy it writes beside the input file.
\* failed: the decoding raised, and extract_proxies returns [] from the
\* handler (line 65).
DecodeStep(content) ==
  IF MatchesBase64(content)
  THEN IF Decodable(content)
       THEN [content |-> B64Decode(content), wrote |-> TRUE, failed |-> FALSE]
       ELSE [content |-> content, wrote |-> FALSE, failed |-> TRUE]
  ELSE [content |-> content, wrote |-> FALSE, failed |-> FALSE]

\* extract_proxies on the text of a file: the records returned, the decoded
\* file it wrote, if any, and the text it went on to parse after the base64
\* branch, if it went on.
extract_proxies(text) ==
  LET step == DecodeStep(text)
      yaml_data == parse_yaml_content(step.content)
      proxies == IF yaml_data.kind = "map" /\ yaml_data.hasProxies
                 THEN yaml_data.proxies ELSE <<>>
  IN IF step.failed
     THEN [records |-> <<>>, wrote |-> FALSE, decoded |-> NoText, continued |-> NoneVal]
     ELSE [records |-> ProcessProxies(proxies),
           wrote |-> step.wrote,
           decoded |-> IF step.wrote THEN step.content ELSE NoText,
           continued |-> Some(step.content)]

\* ------------------------------------------------------------ downloader
\* A source of the config: the file name, and what its URL does.
Source(filename, url_ok, resp_ok, text) ==
  [filename |-> filename, url_ok |-> url_ok, resp_ok |-> resp_ok, text |-> text]

\* Mutant: any content that is not empty passes.
ValidateNonEmpty(text) == TextLen(text) > 0

\* _validate_content: the file is not empty and holds one of the keywords
\* 'proxies:', 'proxy-groups:', 'rules:', 'mixed-port:', 'mode:'.
validate_content(text) ==
  /\ TextLen(text) > 0
  /\ text.wraps = 0
  /\ text.body.kind \in {"doc", "mixed"}
  /\ (text.body.hasProxies \/ text.body.extra)

\* urllib.parse.unquote on the texts of this model: the ones with an escape
\* are listed, the others hold no '%'.
Unquote(s) ==
  CASE s = "My%20Node" -> "My Node"
    [] s = "%2Fws" -> "/ws"
    [] OTHER -> s

\* int(s) on the texts of this model; a text outside the table raises
\* ValueError.
IntTable ==
  ("443" :> 443) @@ ("8443" :> 8443) @@ ("8388" :> 8388) @@ ("80" :> 80)
  @@ ("2048" :> 2048)
IsInt(s) == s \in DOMAIN IntTable
IntOf(s) == IntTable[s]

\* Mutant: the count of records is left out of the name.
ProxyNameWithoutCount(line, uri_proxies) ==
  IF line.fragment.hash /\ line.fragment.text # ""
  THEN Unquote(line.fragment.text)
  ELSE "Proxy_1"

\* Mutant: the count is not raised by one.
ProxyNameFromZero(line, uri_proxies) ==
  IF line.fragment.hash /\ line.fragment.text # ""
  THEN Unquote(line.fragment.text)
  ELSE "Proxy_" \o ToString(Len(uri_proxies))

\* Lines 120-124: the fragment, URL-decoded, or Proxy_n with n one more than
\* the number of records collected so far from this content.
proxy_name(line, uri_proxies) ==
  IF line.fragment.hash /\ line.fragment.text # ""
  THEN Unquote(line.fragment.text)
  ELSE "Proxy_" \o ToString(Len(uri_proxies) + 1)

\* Lines 189-193: the items with '=', the last one winning for a key.
parse_params(query) ==
  LET items == query.items
      Keyed(k) == {j \in 1..Len(items) : items[j].eq /\ items[j].key = k}
      keys == {items[j].key : j \in {m \in 1..Len(items) : items[m].eq}}
  IN [k \in keys |->
        Unquote(items[CHOOSE j \in Keyed(k) : \A m \in Keyed(k) : m <= j].value)]

\* Mutant: a field the record already has is kept.
CopyParamIfAbsent(proxy, params, key, field) ==
  IF key \in DOMAIN params /\ field \notin DOMAIN proxy
  THEN AddField(proxy, field, params[key]) ELSE proxy

\* Copies params[key] to proxy[field] when the query has the key.
CopyParam(proxy, params, key, field) ==
  IF key \in DOMAIN params THEN AddField(proxy, field, params[key]) ELSE proxy

\* Sets proxy[field] to (params[key] == '1') when the query has the key.
FlagParam(proxy, params, key, field) ==
  IF key \in DOMAIN params THEN AddField(proxy, field, params[key] = "1")
  ELSE proxy

ParamIs(params, key, value) == key \in DOMAIN params /\ params[key] = value

\* Mutant: the ss userinfo is split at its first colon.
WithUserinfoSsFirstColon(proxy, protocol, userinfo) ==
  LET parts == userinfo.parts
      text == Join(parts, ":")
  IN IF ~userinfo.at \/ text = "" THEN proxy
     ELSE IF Len(parts) > 1
     THEN CASE protocol = "trojan" -> AddField(proxy, "password", text)
            [] protocol = "ss" ->
                 AddField(AddField(proxy, "method", parts[1]),
                          "password", Join(Tail(parts), ":"))
            [] protocol = "vless" ->
                 LET uuid == AddField(proxy, "uuid", parts[1])
                     flow == Join(Tail(parts), ":")
                 IN IF flow # "" THEN AddField(uuid, "flow", flow) ELSE uuid
            [] OTHER -> proxy
     ELSE CASE protocol = "trojan" -> AddField(proxy, "password", text)
            [] protocol \in {"vless", "vmess"} -> AddField(proxy, "uuid", text)
            [] OTHER -> proxy

\* Lines 203-225.
with_userinfo(proxy, protocol, userinfo) ==
  LET parts == userinfo.parts
      text == Join(parts, ":")
  IN IF ~userinfo.at \/ text = "" THEN proxy
     ELSE IF Len(parts) > 1
     THEN CASE protocol = "trojan" -> AddField(proxy, "password", text)
            [] protocol = "ss" ->
                 AddField(AddField(proxy, "method", Join(Front(parts), ":")),
                          "password", Last(parts))
            [] protocol = "vless" ->
                 LET uuid == AddField(proxy, "uuid", parts[1])
                     flow == Join(Tail(parts), ":")
                 IN IF flow # "" THEN AddField(uuid, "flow", flow) ELSE uuid
            [] OTHER -> proxy
     ELSE CASE protocol = "trojan" -> AddField(proxy, "password", text)
            [] protocol \in {"vless", "vmess"} -> AddField(proxy, "uuid", text)
            [] OTHER -> proxy

\* Lines 227-232.
with_vless_defaults(proxy, protocol) ==
  IF protocol # "vless" THEN proxy
  ELSE LET a == IF "alterId" \notin DOMAIN proxy
                THEN AddField(proxy, "alterId", 0) ELSE proxy
       IN IF "cipher" \notin DOMAIN a THEN AddField(a, "cipher", "auto") ELSE a

\* Lines 239-246: each key that is present assigns the field in turn.
with_cert_skip(proxy, params) ==
  LET a == FlagParam(proxy, params, "skip-cert-verify", "skip-cert-verify")
      b == FlagParam(a, params, "allowinsecure", "skip-cert-verify")
      c == FlagParam(b, params, "allowInsecure", "skip-cert-verify")
  IN FlagParam(c, params, "insecure", "skip-cert-verify")

\* Lines 235-268.
with_params(proxy, params) ==
  LET a == CopyParam(proxy, params, "sni", "sni")
      b == CopyParam(a, params, "servername", "servername")
      c == with_cert_skip(b, params)
      d == FlagParam(c, params, "udp", "udp")
      e == CopyParam(d, params, "type", "network")
      f == IF ParamIs(params, "tls", "1") \/ ParamIs(params, "security", "tls")
           THEN AddField(e, "tls", TRUE) ELSE e
      g == CopyParam(f, params, "flow", "flow")
      h == CopyParam(g, params, "encryption", "cipher")
  IN IF "fp" \in DOMAIN params
     THEN AddField(h, "client-fingerprint", params["fp"])
     ELSE CopyParam(h, params, "client-fingerprint", "client-fingerprint")

\* Lines 270-280: int(params['ed']) raises on a text that is no integer.
WsOptsRaises(params) ==
  "path" \in DOMAIN params /\ "ed" \in DOMAIN params /\ ~IsInt(params["ed"])

with_ws_opts(proxy, params) ==
  IF "path" \notin DOMAIN params THEN proxy
  ELSE LET a == [path |-> params["path"]]
           b == IF "host" \in DOMAIN params
                THEN AddField(a, "headers", [Host |-> params["host"]]) ELSE a
           c == IF "ed" \in DOMAIN params
                THEN AddField(b, "max-early-data", IntOf(params["ed"])) ELSE b
           d == CopyParam(c, params, "ecdh", "early-data-header-name")
       IN AddField(proxy, "ws-opts", d)

\* Lines 282-287.
with_reality_opts(proxy, params) ==
  IF "pbk" \notin DOMAIN params THEN proxy
  ELSE AddField(proxy, "reality-opts",
                CopyParam(("public-key" :> params["pbk"]), params, "sid", "short-id"))

\* Mutant: udp is not defaulted.
Hysteria2WithoutUdpDefault(proxy, protocol, params) ==
  IF protocol # "hysteria2" THEN proxy
  ELSE CopyParam(CopyParam(proxy, params, "mport", "mport"), params, "ports", "ports")

\* Lines 289-297.
with_hysteria2(proxy, protocol, params) ==
  IF protocol # "hysteria2" THEN proxy
  ELSE LET a == CopyParam(proxy, params, "mport", "mport")
           b == CopyParam(a, params, "ports", "ports")
       IN IF "udp" \notin DOMAIN b THEN AddField(b, "udp", TRUE) ELSE b

\* Lines 136-160: the payload is base64 of a JSON object; a payload that
\* does not decode, or a port that is no integer, raises.
VmessRaises(payload) ==
  \/ ~payload.decodes
  \/ ("port" \in DOMAIN payload.json /\ ~IsInt(payload.json["port"]))

JsonGet(json, key, default) == IF key \in DOMAIN json THEN json[key] ELSE default

vmess_proxy(name, vmess_config) ==
  LET proxy ==
        [name |-> name,
         type |-> "vmess",
         server |-> JsonGet(vmess_config, "add", JsonGet(vmess_config, "address", "")),
         port |-> IF "port" \in DOMAIN vmess_config
                  THEN IntOf(vmess_config["port"]) ELSE 443,
         uuid |-> JsonGet(vmess_config, "id", ""),
         alterId |-> JsonGet(vmess_config, "aid", 0),
         cipher |-> JsonGet(vmess_config, "scy", "auto"),
         network |-> JsonGet(vmess_config, "net", "tcp")]
      a == IF ParamIs(vmess_config, "tls", "tls")
           THEN AddField(proxy, "tls", TRUE) ELSE proxy
  IN IF JsonGet(vmess_config, "sni", "") # ""
     THEN AddField(a, "sni", vmess_config["sni"]) ELSE a

Protocols == {"trojan", "ss", "vless", "hysteria2"}

\* Mutant: an address without ':' is taken with the port 443.
SplitWithDefaultPort(addr) ==
  IF Len(addr) >= 2
  THEN [ok |-> TRUE, server |-> Join(Front(addr), ":"), port |-> Last(addr)]
  ELSE IF Len(addr) = 1 THEN [ok |-> TRUE, server |-> addr[1], port |-> "443"]
  ELSE [ok |-> FALSE, server |-> "", port |-> ""]

\* Lines 183-186: server_addr.rsplit(':', 1), or the line is skipped when
\* the address has no ':'.
split_server_addr(addr) ==
  IF Len(addr) >= 2
  THEN [ok |-> TRUE, server |-> Join(Front(addr), ":"), port |-> Last(addr)]
  ELSE [ok |-> FALSE, server |-> "", port |-> ""]

\* One pass of the loop of lines 110-309 over a line with "://": the record
\* appended to uri_proxies, or none when the line is skipped.
parse_link(line, uri_proxies) ==
  LET name == proxy_name(line, uri_proxies)
      protocol == line.scheme
      addr == split_server_addr(line.server_addr.parts)
      params == parse_params(line.query)
  IN IF protocol = "vmess"
     THEN IF VmessRaises(line.payload) THEN NoneVal
          ELSE Some(vmess_proxy(name, line.payload.json))
     ELSE IF protocol \notin Protocols THEN NoneVal
     ELSE IF ~addr.ok THEN NoneVal
     ELSE IF ~IsInt(addr.port) \/ WsOptsRaises(params) THEN NoneVal
     ELSE LET proxy == [name |-> name, type |-> protocol,
                        server |-> addr.server,
                        port |-> IntOf(addr.port)]
              a == with_userinfo(proxy, protocol, line.userinfo)
              b == with_vless_defaults(a, protocol)
              c == with_params(b, params)
              d == with_ws_opts(c, params)
              e == with_reality_opts(d, params)
          IN Some(with_hysteria2(e, protocol, params))

\* The parse of the line raises: int(port) on a text that is no integer,
\* the payload of a vmess link that does not decode or whose port is no
\* integer, int(ed) on a text that is no integer.
LineRaises(line) ==
  /\ line.kind = "link"
  /\ IF line.scheme = "vmess" THEN VmessRaises(line.payload)
     ELSE /\ line.scheme \in Protocols
          /\ split_server_addr(line.server_addr.parts).ok
          /\ \/ ~IsInt(split_server_addr(line.server_addr.parts).port)
             \/ WsOptsRaises(parse_params(line.query))

\* The loop of lines 109-309: the records collected from the lines.
RECURSIVE collect_uri_proxies(_, _)

\* Mutant: a line whose parse raises ends the loop.
CollectStoppingAtError(lines, uri_proxies) ==
  IF lines = <<>> \/ LineRaises(Head(lines)) THEN uri_proxies
  ELSE LET parsed == IF Head(lines).kind = "link"
                     THEN parse_link(Head(lines), uri_proxies) ELSE NoneVal
       IN collect_uri_proxies(Tail(lines),
                              IF parsed.some THEN Append(uri_proxies, parsed.val)
                              ELSE uri_proxies)

collect_uri_proxies(lines, uri_proxies) ==
  IF lines = <<>> THEN uri_proxies
  ELSE LET parsed == IF Head(lines).kind = "link"
                     THEN parse_link(Head(lines), uri_proxies) ELSE NoneVal
       IN collect_uri_proxies(Tail(lines),
                              IF parsed.some THEN Append(uri_proxies, parsed.val)
                              ELSE uri_proxies)

\* Mutant: the generated document keeps the proxies of the payload before
\* the records of its links.
ConvertKeepingStructured(content) ==
  IF content.wraps = 0 /\ content.body.kind \in {"links", "mixed"}
  THEN LET uri_proxies == collect_uri_proxies(content.body.lines, <<>>)
       IN IF uri_proxies # <<>>
          THEN Plain(DocBody(content.body.proxies
                               \o [k \in 1..Len(uri_proxies) |-> MapElem(uri_proxies[k])],
                             TRUE, TRUE))
          ELSE content
  ELSE content

\* Lines 105-326 on the content: a content from which records are
\* collected is replaced by a YAML document listing them as compact JSON;
\* any other content is left as it is.  (The structured part of a payload
\* holds no line with "://".)
convert_uri_content(content) ==
  IF content.wraps = 0 /\ content.body.kind \in {"links", "mixed"}
  THEN LET uri_proxies == collect_uri_proxies(content.body.lines, <<>>)
       IN IF uri_proxies # <<>>
          THEN Plain(DocBody([k \in 1..Len(uri_proxies) |-> MapElem(uri_proxies[k])],
                             TRUE, TRUE))
          ELSE content
  ELSE content

\* The base64 step of download_subscription (lines 88-103).  failed: the
\* decoding raised, and download_subscription removes the temporary file and
\* returns False from the handler (lines 100-103).
DownloadDecode(content) ==
  IF MatchesBase64(content)
  THEN IF Decodable(content)
       THEN [content |-> B64Decode(content), failed |-> FALSE]
       ELSE [content |-> content, failed |-> TRUE]
  ELSE [content |-> content, failed |-> FALSE]

\* download_subscription from the response on: whether it succeeds, the
\* text it moves to the download directory, and the text it went on with
\* after the base64 step, if it went on.
download_subscription(src) ==
  IF ~src.url_ok \/ ~src.resp_ok
  THEN [ok |-> FALSE, stored |-> NoText, continued |-> NoneVal]
  ELSE LET step == DownloadDecode(src.text)
       IN IF step.failed
          THEN [ok |-> FALSE, stored |-> NoText, continued |-> NoneVal]
          ELSE LET content == convert_uri_content(step.content)
               IN IF validate_content(content)
                  THEN [ok |-> TRUE, stored |-> content,
                        continued |-> Some(step.content)]
                  ELSE [ok |-> FALSE, stored |-> NoText,
                        continued |-> Some(step.content)]

\* ------------------------------------------------------- config generator
\* A line of the generated document: literal text, or the prefix "  - "
\* followed by a compact JSON object (kept as the object that is dumped).
TextLine(s) == [kind |-> "text", text |-> s, obj |-> <<>>]
JsonLine(o) == [kind |-> "json", text |-> "  - ", obj |-> o]

generate_base_config_lines ==
  << TextLine("mixed-port: 7890"),
     TextLine("allow-lan: true"),
     TextLine("bind-address: '*'"),
     TextLine("mode: 'rule'"),
     TextLine("log-level: 'info'"),
     TextLine("external-controller: '127.0.0.1:9090'"),
     TextLine("dns:"),
     TextLine("    enable: true"),
     TextLine("    ipv6: false"),
     TextLine("    default-nameserver: [223.5.5.5, 119.29.29.29]"),
     TextLine("    enhanced-mode: fake-ip"),
     TextLine("    fake-ip-range: 198.18.0.1/16"),
     TextLine("    use-hosts: true"),
     TextLine("    nameserver: ['https://doh.pub/dns-query', 'https://dns.alidns.com/dns-query']"),
     TextLine("    fallback: ['https://doh.dns.sb/dns-query', 'https://dns.cloudflare.com/dns-query', 'https://dns.twnic.tw/dns-query', 'tls://8.8.4.4:853']"),
     TextLine("    fallback-filter: {'geoip': True, 'ipcidr': ['240.0.0.0/4', '0.0.0.0/32']}") >>

\* One compact JSON line per record; defined by the generator, and called
\* from nowhere in it.
generate_proxies_lines(proxies) ==
  <<TextLine("proxies:")>>
  \o [k \in 1..Len(SelectSeq(proxies, JsonSerializable)) |->
        JsonLine(SelectSeq(proxies, JsonSerializable)[k])]

\* url = "" and interval = 0 stand for the omitted (None) arguments; both
\* are added to the group only when truthy.
create_group_line(name, group_type, proxies, url, interval) ==
  LET group_data == [name |-> name, type |-> group_type, proxies |-> proxies]
      with_url == IF url # "" THEN AddField(group_data, "url", url) ELSE group_data
      with_interval == IF interval # 0
                       THEN AddField(with_url, "interval", interval) ELSE with_url
  IN JsonLine(with_interval)

\* Mutant: the select group lists the proxies before the two groups.
GroupsWithManualLast(proxy_names) ==
  << TextLine("proxy-groups:"),
     create_group_line(ManualSelect, "select",
                       proxy_names \o <<AutoSelect, Fallback>>, "", 0),
     create_group_line(AutoSelect, "url-test", proxy_names, TestUrl, UrlTestInterval),
     create_group_line(Fallback, "fallback", proxy_names, TestUrl, FallbackInterval) >>

\* Mutant: the two test intervals are exchanged.
GroupsWithIntervalsSwapped(proxy_names) ==
  << TextLine("proxy-groups:"),
     create_group_line(ManualSelect, "select",
                       <<AutoSelect, Fallback>> \o proxy_names, "", 0),
     create_group_line(AutoSelect, "url-test", proxy_names, TestUrl, FallbackInterval),
     create_group_line(Fallback, "fallback", proxy_names, TestUrl, UrlTestInterval) >>

generate_proxy_groups_lines(proxy_names) ==
  << TextLine("proxy-groups:"),
     create_group_line(ManualSelect, "select",
                       <<AutoSelect, Fallback>> \o proxy_names, "", 0),
     create_group_line(AutoSelect, "url-test", proxy_names, TestUrl, UrlTestInterval),
     create_group_line(Fallback, "fallback", proxy_names, TestUrl, FallbackInterval) >>

MatchRule == "MATCH," \o ManualSelect

RuleLine(rule) == TextLine("    - '" \o rule \o "'")
rules ==
  <<
     "DOMAIN,dash.knjc.cfd,DIRECT",
     "DOMAIN-SUFFIX,services.googleapis.cn,ShouDongXuanZe",
     "DOMAIN-SUFFIX,xn--ngstr-lra8j.com,ShouDongXuanZe",
     "DOMAIN,safebrowsing.urlsec.qq.com,DIRECT",
     "DOMAIN,safebrowsing.googleapis.com,DIRECT",
     "DOMAIN,developer.apple.com,ShouDongXuanZe",
     "DOMAIN-SUFFIX,digicert.com,ShouDongXuanZe",
     "DOMAIN,ocsp.apple.com,ShouDongXuanZe",
     "DOMAIN,ocsp.comodoca.com,ShouDongXuanZe",
     "DOMAIN,ocsp.usertrust.com,ShouDongXuanZe",
     "DOMAIN,ocsp.sectigo.com,ShouDongXuanZe",
     "DOMAIN,ocsp.verisign.net,ShouDongXuanZe",
     "DOMAIN-SUFFIX,apple-dns.net,ShouDongXuanZe",
     "DOMAIN,testflight.apple.com,ShouDongXuanZe",
     "DOMAIN,sandbox.itunes.apple.com,ShouDongXuanZe",
     "DOMAIN,itunes.apple.com,ShouDongXuanZe",
     "DOMAIN-SUFFIX,apps.apple.com,ShouDongXuanZe",
     "DOMAIN-SUFFIX,blobstore.apple.com,ShouDongXuanZe",
     "DOMAIN,cvws.icloud-content.com,ShouDongXuanZe",
     "DOMAIN-SUFFIX,mzstatic.com,DIRECT",
     "DOMAIN-SUFFIX,itunes.apple.com,DIRECT",
     "DOMAIN-SUFFIX,icloud.com,DIRECT",
     "DOMAIN-SUFFIX,icloud-content.com,DIRECT",
     "DOMAIN-SUFFIX,me.com,DIRECT",
     "DOMAIN-SUFFIX,aaplimg.com,DIRECT",
     "DOMAIN-SUFFIX,cdn20.com,DIRECT",
     "DOMAIN-SUFFIX,cdn-apple.com,DIRECT",
     "DOMAIN-SUFFIX,akadns.net,DIRECT",
     "DOMAIN-SUFFIX,akamaiedge.net,DIRECT",
     "DOMAIN-SUFFIX,edgekey.net,DIRECT",
     "DOMAIN-SUFFIX,mwcloudcdn.com,DIRECT",
     "DOMAIN-SUFFIX,mwcname.com,DIRECT",
     "DOMAIN-SUFFIX,apple.com,DIRECT",
     "DOMAIN-SUFFIX,apple-cloudkit.com,DIRECT",
     "DOMAIN-SUFFIX,apple-mapkit.com,DIRECT",
     "DOMAIN-SUFFIX,126.com,DIRECT",
     "DOMAIN-SUFFIX,126.net,DIRECT",
     "DOMAIN-SUFFIX,127.net,DIRECT",
     "DOMAIN-SUFFIX,163.com,DIRECT",
     "DOMAIN-SUFFIX,360buyimg.com,DIRECT",
     "DOMAIN-SUFFIX,36kr.com,DIRECT",
     "DOMAIN-SUFFIX,acfun.tv,DIRECT",
     "DOMAIN-SUFFIX,air-matters.com,DIRECT",
     "DOMAIN-SUFFIX,aixifan.com,DIRECT",
     "DOMAIN-KEYWORD,alicdn,DIRECT",
     "DOMAIN-KEYWORD,alipay,DIRECT",
     "DOMAIN-KEYWORD,taobao,DIRECT",
     "DOMAIN-SUFFIX,amap.com,DIRECT",
     "DOMAIN-SUFFIX,autonavi.com,DIRECT",
     "DOMAIN-KEYWORD,baidu,DIRECT",
     "DOMAIN-SUFFIX,bdimg.com,DIRECT",
     "DOMAIN-SUFFIX,bdstatic.com,DIRECT",
     "DOMAIN-SUFFIX,bilibili.com,DIRECT",
     "DOMAIN-SUFFIX,bilivideo.com,DIRECT",
     "DOMAIN-SUFFIX,caiyunapp.com,DIRECT",
     "DOMAIN-SUFFIX,clouddn.com,DIRECT",
     "DOMAIN-SUFFIX,cnbeta.com,DIRECT",
     "DOMAIN-SUFFIX,cnbetacdn.com,DIRECT",
     "DOMAIN-SUFFIX,cootekservice.com,DIRECT",
     "DOMAIN-SUFFIX,csdn.net,DIRECT",
     "DOMAIN-SUFFIX,ctrip.com,DIRECT",
     "DOMAIN-SUFFIX,dgtle.com,DIRECT",
     "DOMAIN-SUFFIX,dianping.com,DIRECT",
     "DOMAIN-SUFFIX,douban.com,DIRECT",
     "DOMAIN-SUFFIX,doubanio.com,DIRECT",
     "DOMAIN-SUFFIX,duokan.com,DIRECT",
     "DOMAIN-SUFFIX,easou.com,DIRECT",
     "DOMAIN-SUFFIX,ele.me,DIRECT",
     "DOMAIN-SUFFIX,feng.com,DIRECT",
     "DOMAIN-SUFFIX,fir.im,DIRECT",
     "DOMAIN-SUFFIX,frdic.com,DIRECT",
     "DOMAIN-SUFFIX,g-cores.com,DIRECT",
     "DOMAIN-SUFFIX,godic.net,DIRECT",
     "DOMAIN-SUFFIX,gtimg.com,DIRECT",
     "DOMAIN,cdn.hockeyapp.net,DIRECT",
     "DOMAIN-SUFFIX,hongxiu.com,DIRECT",
     "DOMAIN-SUFFIX,hxcdn.net,DIRECT",
     "DOMAIN-SUFFIX,iciba.com,DIRECT",
     "DOMAIN-SUFFIX,ifeng.com,DIRECT",
     "DOMAIN-SUFFIX,ifengimg.com,DIRECT",
     "DOMAIN-SUFFIX,ipip.net,DIRECT",
     "DOMAIN-SUFFIX,iqiyi.com,DIRECT",
     "DOMAIN-SUFFIX,jd.com,DIRECT",
     "DOMAIN-SUFFIX,jianshu.com,DIRECT",
     "DOMAIN-SUFFIX,knewone.com,DIRECT",
     "DOMAIN-SUFFIX,le.com,DIRECT",
     "DOMAIN-SUFFIX,lecloud.com,DIRECT",
     "DOMAIN-SUFFIX,lemicp.com,DIRECT",
     "DOMAIN-SUFFIX,licdn.com,DIRECT",
     "DOMAIN-SUFFIX,luoo.net,DIRECT",
     "DOMAIN-SUFFIX,meituan.com,DIRECT",
     "DOMAIN-SUFFIX,meituan.net,DIRECT",
     "DOMAIN-SUFFIX,mi.com,DIRECT",
     "DOMAIN-SUFFIX,miaopai.com,DIRECT",
     "DOMAIN-SUFFIX,microsoft.com,DIRECT",
     "DOMAIN-SUFFIX,microsoftonline.com,DIRECT",
     "DOMAIN-SUFFIX,miui.com,DIRECT",
     "DOMAIN-SUFFIX,miwifi.com,DIRECT",
     "DOMAIN-SUFFIX,mob.com,DIRECT",
     "DOMAIN-SUFFIX,netease.com,DIRECT",
     "DOMAIN-SUFFIX,office.com,DIRECT",
     "DOMAIN-SUFFIX,office365.com,DIRECT",
     "DOMAIN-KEYWORD,officecdn,DIRECT",
     "DOMAIN-SUFFIX,oschina.net,DIRECT",
     "DOMAIN-SUFFIX,ppsimg.com,DIRECT",
     "DOMAIN-SUFFIX,pstatp.com,DIRECT",
     "DOMAIN-SUFFIX,qcloud.com,DIRECT",
     "DOMAIN-SUFFIX,qdaily.com,DIRECT",
     "DOMAIN-SUFFIX,qdmm.com,DIRECT",
     "DOMAIN-SUFFIX,qhimg.com,DIRECT",
     "DOMAIN-SUFFIX,qhres.com,DIRECT",
     "DOMAIN-SUFFIX,qidian.com,DIRECT",
     "DOMAIN-SUFFIX,qihucdn.com,DIRECT",
     "DOMAIN-SUFFIX,qiniu.com,DIRECT",
     "DOMAIN-SUFFIX,qiniucdn.com,DIRECT",
     "DOMAIN-SUFFIX,qiyipic.com,DIRECT",
     "DOMAIN-SUFFIX,qq.com,DIRECT",
     "DOMAIN-SUFFIX,qqurl.com,DIRECT",
     "DOMAIN-SUFFIX,rarbg.to,DIRECT",
     "DOMAIN-SUFFIX,ruguoapp.com,DIRECT",
     "DOMAIN-SUFFIX,segmentfault.com,DIRECT",
     "DOMAIN-SUFFIX,sinaapp.com,DIRECT",
     "DOMAIN-SUFFIX,smzdm.com,DIRECT",
     "DOMAIN-SUFFIX,snapdrop.net,DIRECT",
     "DOMAIN-SUFFIX,sogou.com,DIRECT",
     "DOMAIN-SUFFIX,sogoucdn.com,DIRECT",
     "DOMAIN-SUFFIX,sohu.com,DIRECT",
     "DOMAIN-SUFFIX,soku.com,DIRECT",
     "DOMAIN-SUFFIX,speedtest.net,DIRECT",
     "DOMAIN-SUFFIX,sspai.com,DIRECT",
     "DOMAIN-SUFFIX,suning.com,DIRECT",
     "DOMAIN-SUFFIX,taobao.com,DIRECT",
     "DOMAIN-SUFFIX,tencent.com,DIRECT",
     "DOMAIN-SUFFIX,tenpay.com,DIRECT",
     "DOMAIN-SUFFIX,tianyancha.com,DIRECT",
     "DOMAIN-SUFFIX,tmall.com,DIRECT",
     "DOMAIN-SUFFIX,tudou.com,DIRECT",
     "DOMAIN-SUFFIX,umetrip.com,DIRECT",
     "DOMAIN-SUFFIX,upaiyun.com,DIRECT",
     "DOMAIN-SUFFIX,upyun.com,DIRECT",
     "DOMAIN-SUFFIX,veryzhun.com,DIRECT",
     "DOMAIN-SUFFIX,weather.com,DIRECT",
     "DOMAIN-SUFFIX,weibo.com,DIRECT",
     "DOMAIN-SUFFIX,xiami.com,DIRECT",
     "DOMAIN-SUFFIX,xiami.net,DIRECT",
     "DOMAIN-SUFFIX,xiaomicp.com,DIRECT",
     "DOMAIN-SUFFIX,ximalaya.com,DIRECT",
     "DOMAIN-SUFFIX,xmcdn.com,DIRECT",
     "DOMAIN-SUFFIX,xunlei.com,DIRECT",
     "DOMAIN-SUFFIX,yhd.com,DIRECT",
     "DOMAIN-SUFFIX,yihaodianimg.com,DIRECT",
     "DOMAIN-SUFFIX,yinxiang.com,DIRECT",
     "DOMAIN-SUFFIX,ykimg.com,DIRECT",
     "DOMAIN-SUFFIX,youdao.com,DIRECT",
     "DOMAIN-SUFFIX,youku.com,DIRECT",
     "DOMAIN-SUFFIX,zealer.com,DIRECT",
     "DOMAIN-SUFFIX,zhihu.com,DIRECT",
     "DOMAIN-SUFFIX,zhimg.com,DIRECT",
     "DOMAIN-SUFFIX,zimuzu.tv,DIRECT",
     "DOMAIN-SUFFIX,zoho.com,DIRECT",
     "DOMAIN-KEYWORD,amazon,ShouDongXuanZe",
     "DOMAIN-KEYWORD,google,ShouDongXuanZe",
     "DOMAIN-KEYWORD,gmail,ShouDongXuanZe",
     "DOMAIN-KEYWORD,youtube,ShouDongXuanZe",
     "DOMAIN-KEYWORD,facebook,ShouDongXuanZe",
     "DOMAIN-SUFFIX,fb.me,ShouDongXuanZe",
     "DOMAIN-SUFFIX,fbcdn.net,ShouDongXuanZe",
     "DOMAIN-KEYWORD,twitter,ShouDongXuanZe",
     "DOMAIN-KEYWORD,instagram,ShouDongXuanZe",
     "DOMAIN-KEYWORD,dropbox,ShouDongXuanZe",
     "DOMAIN-SUFFIX,twimg.com,ShouDongXuanZe",
     "DOMAIN-KEYWORD,blogspot,ShouDongXuanZe",
     "DOMAIN-SUFFIX,youtu.be,ShouDongXuanZe",
     "DOMAIN-KEYWORD,whatsapp,ShouDongXuanZe",
     "DOMAIN-KEYWORD,admarvel,REJECT",
     "DOMAIN-KEYWORD,admaster,REJECT",
     "DOMAIN-KEYWORD,adsage,REJECT",
     "DOMAIN-KEYWORD,adsmogo,REJECT",
     "DOMAIN-KEYWORD,adsrvmedia,REJECT",
     "DOMAIN-KEYWORD,adwords,REJECT",
     "DOMAIN-KEYWORD,adservice,REJECT",
     "DOMAIN-SUFFIX,appsflyer.com,REJECT",
     "DOMAIN-KEYWORD,domob,REJECT",
     "DOMAIN-SUFFIX,doubleclick.net,REJECT",
     "DOMAIN-KEYWORD,duomeng,REJECT",
     "DOMAIN-KEYWORD,dwtrack,REJECT",
     "DOMAIN-KEYWORD,guanggao,REJECT",
     "DOMAIN-KEYWORD,lianmeng,REJECT",
     "DOMAIN-SUFFIX,mmstat.com,REJECT",
     "DOMAIN-KEYWORD,mopub,REJECT",
     "DOMAIN-KEYWORD,omgmta,REJECT",
     "DOMAIN-KEYWORD,openx,REJECT",
     "DOMAIN-KEYWORD,partnerad,REJECT",
     "DOMAIN-KEYWORD,pingfore,REJECT",
     "DOMAIN-KEYWORD,supersonicads,REJECT",
     "DOMAIN-KEYWORD,uedas,REJECT",
     "DOMAIN-KEYWORD,umeng,REJECT",
     "DOMAIN-KEYWORD,usage,REJECT",
     "DOMAIN-SUFFIX,vungle.com,REJECT",
     "DOMAIN-KEYWORD,wlmonitor,REJECT",
     "DOMAIN-KEYWORD,zjtoolbar,REJECT",
     "DOMAIN-SUFFIX,9to5mac.com,ShouDongXuanZe",
     "DOMAIN-SUFFIX,abpchina.org,ShouDongXuanZe",
     "DOMAIN-SUFFIX,adblockplus.org,ShouDongXuanZe",
     "DOMAIN-SUFFIX,adobe.com,ShouDongXuanZe",
     "DOMAIN-SUFFIX,akamaized.net,ShouDongXuanZe",
     "DOMAIN-SUFFIX,alfredapp.com,ShouDongXuanZe",
     "DOMAIN-SUFFIX,amplitude.com,ShouDongXuanZe",
     "DOMAIN-SUFFIX,ampproject.org,ShouDongXuanZe",
     "DOMAIN-SUFFIX,android.com,ShouDongXuanZe",
     "DOMAIN-SUFFIX,angularjs.org,ShouDongXuanZe",
     "DOMAIN-SUFFIX,aolcdn.com,ShouDongXuanZe",
     "DOMAIN-SUFFIX,apkpure.com,ShouDongXuanZe",
     "DOMAIN-SUFFIX,appledaily.com,ShouDongXuanZe",
     "DOMAIN-SUFFIX,appshopper.com,ShouDongXuanZe",
     "DOMAIN-SUFFIX,appspot.com,ShouDongXuanZe",
     "DOMAIN-SUFFIX,arcgis.com,ShouDongXuanZe",
     "DOMAIN-SUFFIX,archive.org,ShouDongXuanZe",
     "DOMAIN-SUFFIX,armorgames.com,ShouDongXuanZe",
     "DOMAIN-SUFFIX,aspnetcdn.com,ShouDongXuanZe",
     "DOMAIN-SUFFIX,att.com,ShouDongXuanZe",
     "DOMAIN-SUFFIX,awsstatic.com,ShouDongXuanZe",
     "DOMAIN-SUFFIX,azureedge.net,ShouDongXuanZe",
     "DOMAIN-SUFFIX,azurewebsites.net,ShouDongXuanZe",
     "DOMAIN-SUFFIX,bing.com,ShouDongXuanZe",
     "DOMAIN-SUFFIX,bintray.com,ShouDongXuanZe",
     "DOMAIN-SUFFIX,bit.com,ShouDongXuanZe",
     "DOMAIN-SUFFIX,bit.ly,ShouDongXuanZe",
     "DOMAIN-SUFFIX,bitbucket.org,ShouDongXuanZe",
     "DOMAIN-SUFFIX,bjango.com,ShouDongXuanZe",
     "DOMAIN-SUFFIX,bkrtx.com,ShouDongXuanZe",
     "DOMAIN-SUFFIX,blog.com,ShouDongXuanZe",
     "DOMAIN-SUFFIX,blogcdn.com,ShouDongXuanZe",
     "DOMAIN-SUFFIX,blogger.com,ShouDongXuanZe",
     "DOMAIN-SUFFIX,blogsmithmedia.com,ShouDongXuanZe",
     "DOMAIN-SUFFIX,blogspot.com,ShouDongXuanZe",
     "DOMAIN-SUFFIX,blogspot.hk,ShouDongXuanZe",
     "DOMAIN-SUFFIX,bloomberg.com,ShouDongXuanZe",
     "DOMAIN-SUFFIX,box.com,ShouDongXuanZe",
     "DOMAIN-SUFFIX,box.net,ShouDongXuanZe",
     "DOMAIN-SUFFIX,cachefly.net,ShouDongXuanZe",
     "DOMAIN-SUFFIX,chromium.org,ShouDongXuanZe",
     "DOMAIN-SUFFIX,cl.ly,ShouDongXuanZe",
     "DOMAIN-SUFFIX,cloudflare.com,ShouDongXuanZe",
     "DOMAIN-SUFFIX,cloudfront.net,ShouDongXuanZe",
     "DOMAIN-SUFFIX,cloudmagic.com,ShouDongXuanZe",
     "DOMAIN-SUFFIX,cmail19.com,ShouDongXuanZe",
     "DOMAIN-SUFFIX,cnet.com,ShouDongXuanZe",
     "DOMAIN-SUFFIX,cocoapods.org,ShouDongXuanZe",
     "DOMAIN-SUFFIX,comodoca.com,ShouDongXuanZe",
     "DOMAIN-SUFFIX,crashlytics.com,ShouDongXuanZe",
     "DOMAIN-SUFFIX,culturedcode.com,ShouDongXuanZe",
     "DOMAIN-SUFFIX,d.pr,ShouDongXuanZe",
     "DOMAIN-SUFFIX,danilo.to,ShouDongXuanZe",
     "DOMAIN-SUFFIX,dayone.me,ShouDongXuanZe",
     "DOMAIN-SUFFIX,db.tt,ShouDongXuanZe",
     "DOMAIN-SUFFIX,deskconnect.com,ShouDongXuanZe",
     "DOMAIN-SUFFIX,disq.us,ShouDongXuanZe",
     "DOMAIN-SUFFIX,disqus.com,ShouDongXuanZe",
     "DOMAIN-SUFFIX,disquscdn.com,ShouDongXuanZe",
     "DOMAIN-SUFFIX,dnsimple.com,ShouDongXuanZe",
     "DOMAIN-SUFFIX,docker.com,ShouDongXuanZe",
     "DOMAIN-SUFFIX,dribbble.com,ShouDongXuanZe",
     "DOMAIN-SUFFIX,droplr.com,ShouDongXuanZe",
     "DOMAIN-SUFFIX,duckduckgo.com,ShouDongXuanZe",
     "DOMAIN-SUFFIX,dueapp.com,ShouDongXuanZe",
     "DOMAIN-SUFFIX,dytt8.net,ShouDongXuanZe",
     "DOMAIN-SUFFIX,edgecastcdn.net,ShouDongXuanZe",
     "DOMAIN-SUFFIX,edgekey.net,ShouDongXuanZe",
     "DOMAIN-SUFFIX,edgesuite.net,ShouDongXuanZe",
     "DOMAIN-SUFFIX,engadget.com,ShouDongXuanZe",
     "DOMAIN-SUFFIX,entrust.net,ShouDongXuanZe",
     "DOMAIN-SUFFIX,eurekavpt.com,ShouDongXuanZe",
     "DOMAIN-SUFFIX,evernote.com,ShouDongXuanZe",
     "DOMAIN-SUFFIX,fabric.io,ShouDongXuanZe",
     "DOMAIN-SUFFIX,fast.com,ShouDongXuanZe",
     "DOMAIN-SUFFIX,fastly.net,ShouDongXuanZe",
     "DOMAIN-SUFFIX,fc2.com,ShouDongXuanZe",
     "DOMAIN-SUFFIX,feedburner.com,ShouDongXuanZe",
     "DOMAIN-SUFFIX,feedly.com,ShouDongXuanZe",
     "DOMAIN-SUFFIX,feedsportal.com,ShouDongXuanZe",
     "DOMAIN-SUFFIX,fiftythree.com,ShouDongXuanZe",
     "DOMAIN-SUFFIX,firebaseio.com,ShouDongXuanZe",
     "DOMAIN-SUFFIX,flexibits.com,ShouDongXuanZe",
     "DOMAIN-SUFFIX,flickr.com,ShouDongXuanZe",
     "DOMAIN-SUFFIX,flipboard.com,ShouDongXuanZe",
     "DOMAIN-SUFFIX,g.co,ShouDongXuanZe",
     "DOMAIN-SUFFIX,gabia.net,ShouDongXuanZe",
     "DOMAIN-SUFFIX,geni.us,ShouDongXuanZe",
     "DOMAIN-SUFFIX,gfx.ms,ShouDongXuanZe",
     "DOMAIN-SUFFIX,ggpht.com,ShouDongXuanZe",
     "DOMAIN-SUFFIX,ghostnoteapp.com,ShouDongXuanZe",
     "DOMAIN-SUFFIX,git.io,ShouDongXuanZe",
     "DOMAIN-KEYWORD,github,ShouDongXuanZe",
     "DOMAIN-SUFFIX,globalsign.com,ShouDongXuanZe",
     "DOMAIN-SUFFIX,gmodules.com,ShouDongXuanZe",
     "DOMAIN-SUFFIX,godaddy.com,ShouDongXuanZe",
     "DOMAIN-SUFFIX,golang.org,ShouDongXuanZe",
     "DOMAIN-SUFFIX,gongm.in,ShouDongXuanZe",
     "DOMAIN-SUFFIX,goo.gl,ShouDongXuanZe",
     "DOMAIN-SUFFIX,goodreaders.com,ShouDongXuanZe",
     "DOMAIN-SUFFIX,goodreads.com,ShouDongXuanZe",
     "DOMAIN-SUFFIX,gravatar.com,ShouDongXuanZe",
     "DOMAIN-SUFFIX,gstatic.com,ShouDongXuanZe",
     "DOMAIN-SUFFIX,gvt0.com,ShouDongXuanZe",
     "DOMAIN-SUFFIX,hockeyapp.net,ShouDongXuanZe",
     "DOMAIN-SUFFIX,hotmail.com,ShouDongXuanZe",
     "DOMAIN-SUFFIX,icons8.com,ShouDongXuanZe",
     "DOMAIN-SUFFIX,ifixit.com,ShouDongXuanZe",
     "DOMAIN-SUFFIX,ift.tt,ShouDongXuanZe",
     "DOMAIN-SUFFIX,ifttt.com,ShouDongXuanZe",
     "DOMAIN-SUFFIX,iherb.com,ShouDongXuanZe",
     "DOMAIN-SUFFIX,imageshack.us,ShouDongXuanZe",
     "DOMAIN-SUFFIX,img.ly,ShouDongXuanZe",
     "DOMAIN-SUFFIX,imgur.com,ShouDongXuanZe",
     "DOMAIN-SUFFIX,imore.com,ShouDongXuanZe",
     "DOMAIN-SUFFIX,instapaper.com,ShouDongXuanZe",
     "DOMAIN-SUFFIX,ipn.li,ShouDongXuanZe",
     "DOMAIN-SUFFIX,is.gd,ShouDongXuanZe",
     "DOMAIN-SUFFIX,issuu.com,ShouDongXuanZe",
     "DOMAIN-SUFFIX,itgonglun.com,ShouDongXuanZe",
     "DOMAIN-SUFFIX,itun.es,ShouDongXuanZe",
     "DOMAIN-SUFFIX,ixquick.com,ShouDongXuanZe",
     "DOMAIN-SUFFIX,j.mp,ShouDongXuanZe",
     "DOMAIN-SUFFIX,js.revsci.net,ShouDongXuanZe",
     "DOMAIN-SUFFIX,jshint.com,ShouDongXuanZe",
     "DOMAIN-SUFFIX,jtvnw.net,ShouDongXuanZe",
     "DOMAIN-SUFFIX,justgetflux.com,ShouDongXuanZe",
     "DOMAIN-SUFFIX,kat.cr,ShouDongXuanZe",
     "DOMAIN-SUFFIX,klip.me,ShouDongXuanZe",
     "DOMAIN-SUFFIX,libsyn.com,ShouDongXuanZe",
     "DOMAIN-SUFFIX,linkedin.com,ShouDongXuanZe",
     "DOMAIN-SUFFIX,line-apps.com,ShouDongXuanZe",
     "DOMAIN-SUFFIX,linode.com,ShouDongXuanZe",
     "DOMAIN-SUFFIX,lithium.com,ShouDongXuanZe",
     "DOMAIN-SUFFIX,littlehj.com,ShouDongXuanZe",
     "DOMAIN-SUFFIX,live.com,ShouDongXuanZe",
     "DOMAIN-SUFFIX,live.net,ShouDongXuanZe",
     "DOMAIN-SUFFIX,livefilestore.com,ShouDongXuanZe",
     "DOMAIN-SUFFIX,llnwd.net,ShouDongXuanZe",
     "DOMAIN-SUFFIX,macid.co,ShouDongXuanZe",
     "DOMAIN-SUFFIX,macromedia.com,ShouDongXuanZe",
     "DOMAIN-SUFFIX,macrumors.com,ShouDongXuanZe",
     "DOMAIN-SUFFIX,mashable.com,ShouDongXuanZe",
     "DOMAIN-SUFFIX,mathjax.org,ShouDongXuanZe",
     "DOMAIN-SUFFIX,medium.com,ShouDongXuanZe",
     "DOMAIN-SUFFIX,mega.co.nz,ShouDongXuanZe",
     "DOMAIN-SUFFIX,mega.nz,ShouDongXuanZe",
     "DOMAIN-SUFFIX,megaupload.com,ShouDongXuanZe",
     "DOMAIN-SUFFIX,microsofttranslator.com,ShouDongXuanZe",
     "DOMAIN-SUFFIX,mindnode.com,ShouDongXuanZe",
     "DOMAIN-SUFFIX,mobile01.com,ShouDongXuanZe",
     "DOMAIN-SUFFIX,modmyi.com,ShouDongXuanZe",
     "DOMAIN-SUFFIX,msedge.net,ShouDongXuanZe",
     "DOMAIN-SUFFIX,myfontastic.com,ShouDongXuanZe",
     "DOMAIN-SUFFIX,name.com,ShouDongXuanZe",
     "DOMAIN-SUFFIX,nextmedia.com,ShouDongXuanZe",
     "DOMAIN-SUFFIX,nsstatic.net,ShouDongXuanZe",
     "DOMAIN-SUFFIX,nssurge.com,ShouDongXuanZe",
     "DOMAIN-SUFFIX,nyt.com,ShouDongXuanZe",
     "DOMAIN-SUFFIX,nytimes.com,ShouDongXuanZe",
     "DOMAIN-SUFFIX,omnigroup.com,ShouDongXuanZe",
     "DOMAIN-SUFFIX,onedrive.com,ShouDongXuanZe",
     "DOMAIN-SUFFIX,onenote.com,ShouDongXuanZe",
     "DOMAIN-SUFFIX,ooyala.com,ShouDongXuanZe",
     "DOMAIN-SUFFIX,openvpn.net,ShouDongXuanZe",
     "DOMAIN-SUFFIX,openwrt.org,ShouDongXuanZe",
     "DOMAIN-SUFFIX,orkut.com,ShouDongXuanZe",
     "DOMAIN-SUFFIX,osxdaily.com,ShouDongXuanZe",
     "DOMAIN-SUFFIX,outlook.com,ShouDongXuanZe",
     "DOMAIN-SUFFIX,ow.ly,ShouDongXuanZe",
     "DOMAIN-SUFFIX,paddleapi.com,ShouDongXuanZe",
     "DOMAIN-SUFFIX,parallels.com,ShouDongXuanZe",
     "DOMAIN-SUFFIX,parse.com,ShouDongXuanZe",
     "DOMAIN-SUFFIX,pdfexpert.com,ShouDongXuanZe",
     "DOMAIN-SUFFIX,periscope.tv,ShouDongXuanZe",
     "DOMAIN-SUFFIX,pinboard.in,ShouDongXuanZe",
     "DOMAIN-SUFFIX,pinterest.com,ShouDongXuanZe",
     "DOMAIN-SUFFIX,pixelmator.com,ShouDongXuanZe",
     "DOMAIN-SUFFIX,pixiv.net,ShouDongXuanZe",
     "DOMAIN-SUFFIX,playpcesor.com,ShouDongXuanZe",
     "DOMAIN-SUFFIX,playstation.com,ShouDongXuanZe",
     "DOMAIN-SUFFIX,playstation.com.hk,ShouDongXuanZe",
     "DOMAIN-SUFFIX,playstation.net,ShouDongXuanZe",
     "DOMAIN-SUFFIX,playstationnetwork.com,ShouDongXuanZe",
     "DOMAIN-SUFFIX,pushwoosh.com,ShouDongXuanZe",
     "DOMAIN-SUFFIX,rime.im,ShouDongXuanZe",
     "DOMAIN-SUFFIX,servebom.com,ShouDongXuanZe",
     "DOMAIN-SUFFIX,sfx.ms,ShouDongXuanZe",
     "DOMAIN-SUFFIX,shadowsocks.org,ShouDongXuanZe",
     "DOMAIN-SUFFIX,sharethis.com,ShouDongXuanZe",
     "DOMAIN-SUFFIX,shazam.com,ShouDongXuanZe",
     "DOMAIN-SUFFIX,skype.com,ShouDongXuanZe",
     "DOMAIN-SUFFIX,smartmailcloud.com,ShouDongXuanZe",
     "DOMAIN-SUFFIX,smartmailcloud.com,ShouDongXuanZe",
     "DOMAIN-SUFFIX,sndcdn.com,ShouDongXuanZe",
     "DOMAIN-SUFFIX,sony.com,ShouDongXuanZe",
     "DOMAIN-SUFFIX,soundcloud.com,ShouDongXuanZe",
     "DOMAIN-SUFFIX,sourceforge.net,ShouDongXuanZe",
     "DOMAIN-SUFFIX,spotify.com,ShouDongXuanZe",
     "DOMAIN-SUFFIX,squarespace.com,ShouDongXuanZe",
     "DOMAIN-SUFFIX,sstatic.net,ShouDongXuanZe",
     "DOMAIN-SUFFIX,st.luluku.pw,ShouDongXuanZe",
     "DOMAIN-SUFFIX,stackoverflow.com,ShouDongXuanZe",
     "DOMAIN-SUFFIX,startpage.com,ShouDongXuanZe",
     "DOMAIN-SUFFIX,staticflickr.com,ShouDongXuanZe",
     "DOMAIN-SUFFIX,steamcommunity.com,ShouDongXuanZe",
     "DOMAIN-SUFFIX,symauth.com,ShouDongXuanZe",
     "DOMAIN-SUFFIX,symcb.com,ShouDongXuanZe",
     "DOMAIN-SUFFIX,symcd.com,ShouDongXuanZe",
     "DOMAIN-SUFFIX,tapbots.com,ShouDongXuanZe",
     "DOMAIN-SUFFIX,tapbots.net,ShouDongXuanZe",
     "DOMAIN-SUFFIX,tdesktop.com,ShouDongXuanZe",
     "DOMAIN-SUFFIX,techcrunch.com,ShouDongXuanZe",
     "DOMAIN-SUFFIX,techsmith.com,ShouDongXuanZe",
     "DOMAIN-SUFFIX,thepiratebay.org,ShouDongXuanZe",
     "DOMAIN-SUFFIX,theverge.com,ShouDongXuanZe",
     "DOMAIN-SUFFIX,time.com,ShouDongXuanZe",
     "DOMAIN-SUFFIX,timeinc.net,ShouDongXuanZe",
     "DOMAIN-SUFFIX,tiny.cc,ShouDongXuanZe",
     "DOMAIN-SUFFIX,tinypic.com,ShouDongXuanZe",
     "DOMAIN-SUFFIX,tmblr.co,ShouDongXuanZe",
     "DOMAIN-SUFFIX,todoist.com,ShouDongXuanZe",
     "DOMAIN-SUFFIX,trello.com,ShouDongXuanZe",
     "DOMAIN-SUFFIX,trustasiassl.com,ShouDongXuanZe",
     "DOMAIN-SUFFIX,tumblr.co,ShouDongXuanZe",
     "DOMAIN-SUFFIX,tumblr.com,ShouDongXuanZe",
     "DOMAIN-SUFFIX,tweetdeck.com,ShouDongXuanZe",
     "DOMAIN-SUFFIX,tweetmarker.net,ShouDongXuanZe",
     "DOMAIN-SUFFIX,twitch.tv,ShouDongXuanZe",
     "DOMAIN-SUFFIX,txmblr.com,ShouDongXuanZe",
     "DOMAIN-SUFFIX,typekit.net,ShouDongXuanZe",
     "DOMAIN-SUFFIX,ubertags.com,ShouDongXuanZe",
     "DOMAIN-SUFFIX,ublock.org,ShouDongXuanZe",
     "DOMAIN-SUFFIX,ubnt.com,ShouDongXuanZe",
     "DOMAIN-SUFFIX,ulyssesapp.com,ShouDongXuanZe",
     "DOMAIN-SUFFIX,urchin.com,ShouDongXuanZe",
     "DOMAIN-SUFFIX,usertrust.com,ShouDongXuanZe",
     "DOMAIN-SUFFIX,v.gd,ShouDongXuanZe",
     "DOMAIN-SUFFIX,v2ex.com,ShouDongXuanZe",
     "DOMAIN-SUFFIX,vimeo.com,ShouDongXuanZe",
     "DOMAIN-SUFFIX,vimeocdn.com,ShouDongXuanZe",
     "DOMAIN-SUFFIX,vine.co,ShouDongXuanZe",
     "DOMAIN-SUFFIX,vivaldi.com,ShouDongXuanZe",
     "DOMAIN-SUFFIX,vox-cdn.com,ShouDongXuanZe",
     "DOMAIN-SUFFIX,vsco.co,ShouDongXuanZe",
     "DOMAIN-SUFFIX,vultr.com,ShouDongXuanZe",
     "DOMAIN-SUFFIX,w.org,ShouDongXuanZe",
     "DOMAIN-SUFFIX,w3schools.com,ShouDongXuanZe",
     "DOMAIN-SUFFIX,webtype.com,ShouDongXuanZe",
     "DOMAIN-SUFFIX,wikiwand.com,ShouDongXuanZe",
     "DOMAIN-SUFFIX,wikileaks.org,ShouDongXuanZe",
     "DOMAIN-SUFFIX,wikimedia.org,ShouDongXuanZe",
     "DOMAIN-SUFFIX,wikipedia.com,ShouDongXuanZe",
     "DOMAIN-SUFFIX,wikipedia.org,ShouDongXuanZe",
     "DOMAIN-SUFFIX,windows.com,ShouDongXuanZe",
     "DOMAIN-SUFFIX,windows.net,ShouDongXuanZe",
     "DOMAIN-SUFFIX,wire.com,ShouDongXuanZe",
     "DOMAIN-SUFFIX,wordpress.com,ShouDongXuanZe",
     "DOMAIN-SUFFIX,workflowy.com,ShouDongXuanZe",
     "DOMAIN-SUFFIX,wp.com,ShouDongXuanZe",
     "DOMAIN-SUFFIX,wsj.com,ShouDongXuanZe",
     "DOMAIN-SUFFIX,wsj.net,ShouDongXuanZe",
     "DOMAIN-SUFFIX,xda-developers.com,ShouDongXuanZe",
     "DOMAIN-SUFFIX,xeeno.com,ShouDongXuanZe",
     "DOMAIN-SUFFIX,xiti.com,ShouDongXuanZe",
     "DOMAIN-SUFFIX,yahoo.com,ShouDongXuanZe",
     "DOMAIN-SUFFIX,yimg.com,ShouDongXuanZe",
     "DOMAIN-SUFFIX,ying.com,ShouDongXuanZe",
     "DOMAIN-SUFFIX,yoyo.org,ShouDongXuanZe",
     "DOMAIN-SUFFIX,ytimg.com,ShouDongXuanZe",
     "DOMAIN-SUFFIX,telegra.ph,ShouDongXuanZe",
     "DOMAIN-SUFFIX,telegram.org,ShouDongXuanZe",
     "IP-CIDR,91.108.4.0/22,ShouDongXuanZe,no-resolve",
     "IP-CIDR,91.108.8.0/21,ShouDongXuanZe,no-resolve",
     "IP-CIDR,91.108.16.0/22,ShouDongXuanZe,no-resolve",
     "IP-CIDR,91.108.56.0/22,ShouDongXuanZe,no-resolve",
     "IP-CIDR,149.154.160.0/20,ShouDongXuanZe,no-resolve",
     "IP-CIDR6,2001:67c:4e8::/48,ShouDongXuanZe,no-resolve",
     "IP-CIDR6,2001:b28:f23d::/48,ShouDongXuanZe,no-resolve",
     "IP-CIDR6,2001:b28:f23f::/48,ShouDongXuanZe,no-resolve",
     "IP-CIDR,120.232.181.162/32,ShouDongXuanZe,no-resolve",
     "IP-CIDR,120.241.147.226/32,ShouDongXuanZe,no-resolve",
     "IP-CIDR,120.253.253.226/32,ShouDongXuanZe,no-resolve",
     "IP-CIDR,120.253.255.162/32,ShouDongXuanZe,no-resolve",
     "IP-CIDR,120.253.255.34/32,ShouDongXuanZe,no-resolve",
     "IP-CIDR,120.253.255.98/32,ShouDongXuanZe,no-resolve",
     "IP-CIDR,180.163.150.162/32,ShouDongXuanZe,no-resolve",
     "IP-CIDR,180.163.150.34/32,ShouDongXuanZe,no-resolve",
     "IP-CIDR,180.163.151.162/32,ShouDongXuanZe,no-resolve",
     "IP-CIDR,180.163.151.34/32,ShouDongXuanZe,no-resolve",
     "IP-CIDR,203.208.39.0/24,ShouDongXuanZe,no-resolve",
     "IP-CIDR,203.208.40.0/24,ShouDongXuanZe,no-resolve",
     "IP-CIDR,203.208.41.0/24,ShouDongXuanZe,no-resolve",
     "IP-CIDR,203.208.43.0/24,ShouDongXuanZe,no-resolve",
     "IP-CIDR,203.208.50.0/24,ShouDongXuanZe,no-resolve",
     "IP-CIDR,220.181.174.162/32,ShouDongXuanZe,no-resolve",
     "IP-CIDR,220.181.174.226/32,ShouDongXuanZe,no-resolve",
     "IP-CIDR,220.181.174.34/32,ShouDongXuanZe,no-resolve",
     "DOMAIN,injections.adguard.org,DIRECT",
     "DOMAIN,local.adguard.org,DIRECT",
     "DOMAIN-SUFFIX,local,DIRECT",
     "IP-CIDR,127.0.0.0/8,DIRECT",
     "IP-CIDR,172.16.0.0/12,DIRECT",
     "IP-CIDR,192.168.0.0/16,DIRECT",
     "IP-CIDR,10.0.0.0/8,DIRECT",
     "IP-CIDR,17.0.0.0/8,DIRECT",
     "IP-CIDR,100.64.0.0/10,DIRECT",
     "IP-CIDR,224.0.0.0/4,DIRECT",
     "IP-CIDR6,fe80::/10,DIRECT",
     "DOMAIN-SUFFIX,cn,DIRECT",
     "DOMAIN-KEYWORD,-cn,DIRECT",
     "GEOIP,CN,DIRECT"
  >>

\* Mutant: the MATCH rule is not appended.
RulesWithoutMatch ==
  <<TextLine("rules:")>> \o [k \in 1..Len(rules) |-> RuleLine(rules[k])]

generate_rules_lines ==
  <<TextLine("rules:")>> \o [k \in 1..Len(rules) |-> RuleLine(rules[k])]
  \o <<RuleLine(MatchRule)>>

\* [proxy.get('name', 'Unknown') for proxy in proxies]
ProxyNames(proxies) ==
  [k \in 1..Len(proxies) |->
     IF "name" \in DOMAIN proxies[k] THEN proxies[k]["name"] ELSE "Unknown"]

\* The lines generate_config joins and writes.
content_lines(proxies) ==
  generate_base_config_lines
  \o generate_proxy_groups_lines(ProxyNames(proxies))
  \o generate_rules_lines

\* ------------------------------------------------------------ file system
FileNames == {"a.yaml", "b.yaml"}

\* yaml_file.parent / (yaml_file.stem + '.decoded' + yaml_file.suffix)
DecodedName(f) == IF f = "a.yaml" THEN "a.decoded.yaml" ELSE "b.decoded.yaml"

AllFiles == FileNames \cup {DecodedName(f) : f \in FileNames}

Absent == [exists |-> FALSE, text |-> NoText]
Stored(text) == [exists |-> TRUE, text |-> text]

NoLines == [exists |-> FALSE, lines |-> <<>>]
Written(lines) == [exists |-> TRUE, lines |-> lines]

\* extract_proxies on a file of the download directory: a missing file
\* raises inside the function, which returns no record.
ExtractFile(fs, f) ==
  IF fs[f].exists THEN extract_proxies(fs[f].text)
  ELSE [records |-> <<>>, wrote |-> FALSE, decoded |-> NoText, continued |-> NoneVal]

\* Mutant: the preview file is not unlinked.
PreviewLeftOnDisk(proxies, out, write_ok) ==
  IF write_ok
  THEN [out EXCEPT !.preview = Written(content_lines(proxies)),
                   !.printed = Written(content_lines(proxies))]
  ELSE out

\* generate_config_preview and the print of run: generate_config writes
\* <output>.preview; when it succeeds the file is read back and unlinked,
\* and run prints its text.
generate_config_preview(proxies, out, write_ok) ==
  IF write_ok
  THEN [out EXCEPT !.preview = NoLines,
                   !.printed = Written(content_lines(proxies))]
  ELSE out

AfterExtract(fs, f) ==
  LET e == ExtractFile(fs, f)
  IN IF e.wrote THEN [fs EXCEPT ![DecodedName(f)] = Stored(e.decoded)] ELSE fs

\* -------------------------------------------------------- inputs of run
\* Share links, as lines of a payload.
L_Trojan ==
  Link("trojan", Userinfo(<<"secret">>), ServerAddr(<<"host.example", "443">>, FALSE),
       Query(<<Param("sni", "a.example")>>), Fragment("My%20Node"))
L_TrojanColons ==
  Link("trojan", Userinfo(<<"a", "b", "c">>), ServerAddr(<<"h1", "8443">>, TRUE),
       Query(<<Param("allowinsecure", "1"), Param("udp", "1")>>), NoFragment)
L_Ss ==
  Link("ss", Userinfo(<<"aes", "gcm", "pw123">>), ServerAddr(<<"h2", "8388">>, FALSE),
       NoQuery, NoFragment)
L_SsOpaque ==
  Link("ss", Userinfo(<<"YWVzOnB3">>), ServerAddr(<<"h2", "8388">>, FALSE),
       Query(<<BareParam("udp")>>), Fragment(""))
L_Vless ==
  Link("vless", Userinfo(<<"u1", "xtls", "vision">>), ServerAddr(<<"h3", "443">>, FALSE),
       Query(<<Param("skip-cert-verify", "1"), Param("security", "tls"),
               Param("insecure", "0")>>),
       NoFragment)
L_VlessPlain ==
  Link("vless", Userinfo(<<"u2">>), ServerAddr(<<"h3", "443">>, FALSE),
       Query(<<Param("allowInsecure", "0"), Param("udp", "0"),
               Param("path", "%2Fws"), Param("ed", "2048")>>),
       Fragment("V"))
L_Hy2 ==
  Link("hysteria2", Userinfo(<<"pw">>), ServerAddr(<<"h4", "443">>, FALSE),
       Query(<<Param("mport", "8443"), Param("sni", "a.example")>>), NoFragment)
L_Hy2Udp ==
  Link("hysteria2", NoUserinfo, ServerAddr(<<"h4", "443">>, FALSE),
       Query(<<Param("udp", "0"), Param("insecure", "1")>>), NoFragment)
L_NoPort ==
  Link("trojan", Userinfo(<<"pw">>), ServerAddr(<<"h5">>, FALSE),
       Query(<<Param("sni", "a.example")>>), NoFragment)
L_BadPort ==
  Link("trojan", Userinfo(<<"pw">>), ServerAddr(<<"h5", "https">>, FALSE),
       NoQuery, Fragment("X"))
L_Http ==
  Link("https", NoUserinfo, ServerAddr(<<"doh.pub/dns-query">>, FALSE),
       NoQuery, NoFragment)
L_Vmess ==
  VmessLink(Payload(("add" :> "h") @@ ("port" :> "443") @@ ("id" :> "u")
                    @@ ("aid" :> 2) @@ ("net" :> "ws")),
            NoFragment)
L_VmessBad == VmessLink(NoPayload, Fragment("W"))
L_BadEd ==
  Link("vless", Userinfo(<<"u2">>), ServerAddr(<<"h3", "443">>, FALSE),
       Query(<<Param("path", "%2Fws"), Param("ed", "max")>>), NoFragment)
L_VlessEnc ==
  Link("vless", Userinfo(<<"u3", "xtls">>), ServerAddr(<<"h3", "8443">>, FALSE),
       Query(<<Param("encryption", "none"), Param("flow", "vision")>>), NoFragment)

T_A == Plain(DocBody(<<MapElem(GoodA)>>, TRUE, FALSE))
T_BX == Plain(DocBody(<<MapElem(NoPort), MapElem(GoodB)>>, TRUE, TRUE))
T_W == B64Encode(Plain(DocBody(<<MapElem(DupA), MapElem(NoName)>>, TRUE, FALSE)))
T_WS == B64Encode(T_A)
T_0 == Plain(DocBody(<<>>, FALSE, TRUE))
T_J == Plain(JunkBody)
T_Bad == Plain(BadB64Body)
T_L0 ==
  Plain(LinksBody(<<Link("trojan", Userinfo(<<"pw">>), ServerAddr(<<"h5">>, FALSE),
                         NoQuery, NoFragment)>>))

T_T == Plain(DocBody(<<MapElem(Tuic)>>, TRUE, FALSE))
T_M == Plain(MixedBody(<<MapElem(GoodA)>>, <<L_Ss, L_BadPort, L_Trojan>>))
T_M0 == Plain(MixedBody(<<MapElem(GoodB)>>, <<CommentLine, L_NoPort>>))

RunTexts == {T_A, T_BX, T_W, T_WS, T_0, T_J, T_Bad, T_L0, T_T, T_M, T_M0}

Sources ==
  {Source(f, FALSE, FALSE, NoText) : f \in FileNames}
  \cup {Source(f, TRUE, FALSE, NoText) : f \in FileNames}
  \cup {Source(f, TRUE, TRUE, t) : f \in FileNames, t \in RunTexts}

SeqsUpTo(S, n) == UNION {[1..k -> S] : k \in 0..n}

NamelessDicts == {NoName}
HashSamples == {7, 14242}

\* ------------------------------------------------------------------ run
Init ==
  /\ config_exists \in BOOLEAN
  /\ subscriptions \in SeqsUpTo(Sources, MaxSources)
  /\ (~config_exists => subscriptions = <<>>)
  /\ dry_run \in BOOLEAN
  /\ pyhash \in [NamelessDicts -> HashSamples]
  /\ pc = "start"
  /\ i = 1
  /\ files = [f \in AllFiles |-> Absent]
  /\ downloaded_files = <<>>
  /\ all_proxies = <<>>
  /\ output = [final |-> NoLines, preview |-> NoLines, printed |-> NoLines]
  /\ generator_calls = 0
  /\ result = "none"
  /\ fs_failed = FALSE
  /\ doc = NoText
  /\ res = <<>>

Return(value) == pc' = "done" /\ result' = value

\* Mutant: the exception of parse_subscriptions leaves run uncaught.
ParseSubscriptionsUncaught ==
  /\ pc = "start"
  /\ IF ~config_exists \/ subscriptions = <<>>
     THEN Return("raised") /\ UNCHANGED i
     ELSE pc' = "download" /\ i' = 1 /\ UNCHANGED result
  /\ UNCHANGED <<config_exists, subscriptions, dry_run, pyhash, files,
                 downloaded_files, all_proxies, output, generator_calls, fs_failed, doc, res>>

\* Step 1: parse_subscriptions raises when the file is missing or holds no
\* entry; run catches it and returns False.
ParseSubscriptions ==
  /\ pc = "start"
  /\ IF ~config_exists \/ subscriptions = <<>>
     THEN Return("false") /\ UNCHANGED i
     ELSE pc' = "download" /\ i' = 1 /\ UNCHANGED result
  /\ UNCHANGED <<config_exists, subscriptions, dry_run, pyhash, files,
                 downloaded_files, all_proxies, output, generator_calls, fs_failed, doc, res>>

\* Mutant: the content is written to the destination before it is
\* validated.
DownloadStepWritingInPlace ==
  /\ pc = "download"
  /\ i <= Len(subscriptions)
  /\ \E src \in {subscriptions[i]} :
     \E success \in {download_subscription(src)} :
        /\ files' = IF success.ok
                    THEN [files EXCEPT ![src.filename] = Stored(success.stored)]
                    ELSE IF success.continued.some
                    THEN [files EXCEPT ![src.filename] = Stored(success.continued.val)]
                    ELSE files
        /\ downloaded_files' = IF success.ok
                               THEN Append(downloaded_files, src.filename)
                               ELSE downloaded_files
  /\ i' = i + 1
  /\ UNCHANGED <<config_exists, subscriptions, dry_run, pyhash, pc, all_proxies,
                 output, generator_calls, result, fs_failed,
                 doc, res>>

\* Step 2, one pass of the loop: download one subscription.
DownloadStep ==
  /\ pc = "download"
  /\ i <= Len(subscriptions)
  /\ \E src \in {subscriptions[i]} :
     \E success \in {download_subscription(src)} :
        /\ files' = IF success.ok
                    THEN [files EXCEPT ![src.filename] = Stored(success.stored)]
                    ELSE files
        /\ downloaded_files' = IF success.ok
                               THEN Append(downloaded_files, src.filename)
                               ELSE downloaded_files
  /\ i' = i + 1
  /\ UNCHANGED <<config_exists, subscriptions, dry_run, pyhash, pc, all_proxies,
                 output, generator_calls, result, fs_failed,
                 doc, res>>

\* if not downloaded_files: return False
DownloadsDone ==
  /\ pc = "download"
  /\ i > Len(subscriptions)
  /\ IF downloaded_files = <<>>
     THEN Return("false") /\ UNCHANGED i
     ELSE pc' = "extract" /\ i' = 1 /\ UNCHANGED result
  /\ UNCHANGED <<config_exists, subscriptions, dry_run, pyhash, files,
                 downloaded_files, all_proxies, output, generator_calls, fs_failed, doc, res>>

\* Step 3, one pass of the loop: extract the proxies of one downloaded file.
ExtractStep ==
  /\ pc = "extract"
  /\ i <= Len(downloaded_files)
  /\ \E proxies \in {ExtractFile(files, downloaded_files[i]).records} :
       all_proxies' = IF proxies # <<>> THEN all_proxies \o proxies ELSE all_proxies
  /\ files' = AfterExtract(files, downloaded_files[i])
  /\ i' = i + 1
  /\ UNCHANGED <<config_exists, subscriptions, dry_run, pyhash, pc,
                 downloaded_files, output, generator_calls, result, fs_failed,
                 doc, res>>

\* Mutant: the aggregate is not tested for emptiness.
ExtractDoneWithoutEmptyCheck ==
  /\ pc = "extract"
  /\ i > Len(downloaded_files)
  /\ pc' = "generate"
  /\ UNCHANGED <<config_exists, subscriptions, dry_run, pyhash, i, files,
                 downloaded_files, all_proxies, output, generator_calls, result,
                 fs_failed, doc, res>>

\* if not all_proxies: return False
ExtractDone ==
  /\ pc = "extract"
  /\ i > Len(downloaded_files)
  /\ IF all_proxies = <<>>
     THEN Return("false")
     ELSE pc' = "generate" /\ UNCHANGED result
  /\ UNCHANGED <<config_exists, subscriptions, dry_run, pyhash, i, files,
                 downloaded_files, all_proxies, output, generator_calls, fs_failed, doc, res>>

\* Step 5: make the output directory, then write the document (or, in
\* dry-run mode, write, read back and delete the preview file).  mkdir_ok
\* and write_ok are what the file system answers.
Generate ==
  /\ pc = "generate"
  /\ \E mkdir_ok \in BOOLEAN, write_ok \in BOOLEAN :
       IF ~mkdir_ok
       THEN /\ Return("false")
            /\ fs_failed' = TRUE
            /\ UNCHANGED <<output, generator_calls>>
       ELSE /\ generator_calls' = generator_calls + 1
            /\ fs_failed' = ~write_ok
            /\ IF dry_run
               THEN /\ output' = generate_config_preview(all_proxies, output, write_ok)
                    /\ Return("true")
               ELSE /\ output' = IF write_ok
                                 THEN [output EXCEPT
                                         !.final = Written(content_lines(all_proxies))]
                                 ELSE output
                    /\ Return(IF write_ok THEN "true" ELSE "false")
  /\ UNCHANGED <<config_exists, subscriptions, dry_run, pyhash, i, files,
                 downloaded_files, all_proxies, doc, res>>

Next ==
  \/ ParseSubscriptions
  \/ DownloadStep
  \/ DownloadsDone
  \/ ExtractStep
  \/ ExtractDone
  \/ Generate

Spec == Init /\ [][Next]_vars

\* The positions of run.
Positions == {"start", "download", "extract", "generate", "done"}

\* A step of run seen from its control alone: the position or the loop
\* index moves.  Every step of Next is one, and one is possible exactly
\* until run has returned.
Advance ==
  /\ pc # "done"
  /\ \E p \in Positions, k \in 1..(MaxSources + 1) :
       /\ <<p, k>> # <<pc, i>>
       /\ pc' = p
       /\ i' = k

\* run is one sequential call: every loop runs over a finite list and every
\* request carries a timeout, so run does not stop before it returns.
FairSpec == Init /\ [][Next]_vars /\ WF_<<pc, i>>(Advance)

\* ------------------------------------------------------- run, twice
\* The program is started a second time on the same configuration, with the
\* sources serving the same payloads: a new process, hence a new string
\* hash seed, over the directories the first run left.
Rerun ==
  /\ pc = "done"
  /\ res = <<>>
  /\ res' = <<[result |-> result, output |-> output, fs_failed |-> fs_failed]>>
  /\ pyhash' \in [NamelessDicts -> HashSamples]
  /\ pc' = "start"
  /\ i' = 1
  /\ downloaded_files' = <<>>
  /\ all_proxies' = <<>>
  /\ result' = "none"
  /\ fs_failed' = FALSE
  /\ UNCHANGED <<config_exists, subscriptions, dry_run, files, output,
                 generator_calls, doc>>

RerunNext == Next \/ Rerun

SpecRerun == Init /\ [][RerunNext]_vars

\* ------------------------------------------------- extraction on its own
\* extract_proxies and the download path applied to one document and to its
\* base64 wrapping, for every document within the bounds.
HarnessElems ==
  {MapElem(d) : d \in {GoodA, GoodB, NoPort, EmptyName, NoName, NoTypePw}}
  \cup {ScalarElem, StrElem(TextString(TRUE)), StrElem(TextString(FALSE))}

HarnessDocs ==
  {Plain(DocBody(ps, TRUE, extra)) :
     ps \in SeqsUpTo(HarnessElems, MaxProxies), extra \in BOOLEAN}
  \cup {T_0, T_Bad}

Variants == {"plain", "wrapped", "dl_plain", "dl_wrapped"}

VariantText(v) == IF v \in {"plain", "dl_plain"} THEN doc ELSE B64Encode(doc)

\* The outcome for one variant: the records, and the text the function
\* went on with after its base64 step (none when it returned there).
NotDone == [done |-> FALSE, records |-> <<>>, continued |-> NoneVal]
Done(records, continued) ==
  [done |-> TRUE, records |-> records, continued |-> continued]

ExtractInit ==
  /\ doc \in HarnessDocs
  /\ pyhash \in [NamelessDicts -> HashSamples]
  /\ res = [v \in Variants |-> NotDone]
  /\ pc = "harness"
  /\ files = [f \in AllFiles |-> Absent]
  /\ config_exists = FALSE
  /\ subscriptions = <<>>
  /\ dry_run = FALSE
  /\ i = 1
  /\ downloaded_files = <<>>
  /\ all_proxies = <<>>
  /\ output = [final |-> NoLines, preview |-> NoLines, printed |-> NoLines]
  /\ generator_calls = 0
  /\ result = "none"
  /\ fs_failed = FALSE

\* extract_proxies on a file holding the document, plain or wrapped.
ExtractDirect ==
  /\ pc = "harness"
  /\ \E v \in {"plain", "wrapped"} :
       /\ ~res[v].done
       /\ \E placed \in {[files EXCEPT !["a.yaml"] = Stored(VariantText(v))]} :
          \E e \in {ExtractFile(placed, "a.yaml")} :
             /\ res' = [res EXCEPT ![v] = Done(e.records, e.continued)]
             /\ files' = AfterExtract(placed, "a.yaml")
  /\ UNCHANGED <<config_exists, subscriptions, dry_run, pyhash, pc, i,
                 downloaded_files, all_proxies, output, generator_calls, result,
                 fs_failed, doc>>

\* download_subscription of a URL serving the document, plain or wrapped,
\* then extract_proxies on the downloaded file, as run does.
DownloadThenExtract ==
  /\ pc = "harness"
  /\ \E v \in {"dl_plain", "dl_wrapped"} :
       /\ ~res[v].done
       /\ \E success \in {download_subscription(Source("b.yaml", TRUE, TRUE, VariantText(v)))} :
          \E placed \in {[files EXCEPT !["b.yaml"] = Stored(success.stored)]} :
             IF success.ok
             THEN /\ res' = [res EXCEPT ![v] =
                                Done(ExtractFile(placed, "b.yaml").records,
                                     success.continued)]
                  /\ files' = AfterExtract(placed, "b.yaml")
             ELSE /\ res' = [res EXCEPT ![v] = Done(<<>>, success.continued)]
                  /\ UNCHANGED files
  /\ UNCHANGED <<config_exists, subscriptions, dry_run, pyhash, pc, i,
                 downloaded_files, all_proxies, output, generator_calls, result,
                 fs_failed, doc>>

ExtractNext == ExtractDirect \/ DownloadThenExtract

SpecExtract == ExtractInit /\ [][ExtractNext]_vars

\* ------------------------------------------------- share links on their own
\* download_subscription of a URL serving a share-link list, then
\* extract_proxies on the downloaded file, as run does: for the list as
\* given, and for the list with the port of its i-th link taken away.
SampleLines ==
  {L_Trojan, L_TrojanColons, L_Ss, L_SsOpaque, L_Vless, L_VlessPlain, L_Hy2,
   L_Hy2Udp, L_NoPort, L_BadPort, L_Http, L_Vmess, L_VmessBad, L_BadEd,
   L_VlessEnc, CommentLine}

\* Longer lists: a line that raises, and a line that is skipped, between two
\* links without a fragment.
LongLinkLines == {<<L_Ss, L_BadEd, L_Hy2>>, <<L_Vmess, L_NoPort, L_TrojanColons>>}

LinkDocs ==
  {Plain(LinksBody(lines)) : lines \in SeqsUpTo(SampleLines, MaxLinks) \cup LongLinkLines}

LinkVariants == {"given", "portless", "without"}

RemoveAt(s, k) == SubSeq(s, 1, k - 1) \o SubSeq(s, k + 1, Len(s))

\* The line with the ':port' of its server address taken away.
WithoutPort(line) ==
  IF Len(line.server_addr.parts) >= 2
  THEN [line EXCEPT !.server_addr.parts = Front(line.server_addr.parts)]
  ELSE line

\* The list under test; the list with the ':port' of line i taken away;
\* the list without line i.
LinkVariantText(v) ==
  IF v = "given" \/ i > Len(doc.body.lines) THEN doc
  ELSE IF v = "portless"
  THEN Plain(LinksBody([doc.body.lines EXCEPT ![i] = WithoutPort(doc.body.lines[i])]))
  ELSE Plain(LinksBody(RemoveAt(doc.body.lines, i)))

LinksInit ==
  /\ doc \in LinkDocs
  /\ i \in 1..MaxLinks
  /\ (doc.body.lines = <<>> => i = 1)
  /\ (doc.body.lines # <<>> => i <= Len(doc.body.lines))
  /\ pyhash \in [NamelessDicts -> {7}]
  /\ res = [v \in LinkVariants |-> NotDone]
  /\ pc = "links"
  /\ files = [f \in AllFiles |-> Absent]
  /\ config_exists = FALSE
  /\ subscriptions = <<>>
  /\ dry_run = FALSE
  /\ downloaded_files = <<>>
  /\ all_proxies = <<>>
  /\ output = [final |-> NoLines, preview |-> NoLines, printed |-> NoLines]
  /\ generator_calls = 0
  /\ result = "none"
  /\ fs_failed = FALSE

DownloadLinks ==
  /\ pc = "links"
  /\ \E v \in LinkVariants :
       /\ ~res[v].done
       /\ \E success \in {download_subscription(Source("a.yaml", TRUE, TRUE, LinkVariantText(v)))} :
          \E placed \in {[files EXCEPT !["a.yaml"] = Stored(success.stored)]} :
             IF success.ok
             THEN /\ res' = [res EXCEPT ![v] =
                                Done(ExtractFile(placed, "a.yaml").records,
                                     success.continued)]
                  /\ files' = AfterExtract(placed, "a.yaml")
             ELSE /\ res' = [res EXCEPT ![v] = Done(<<>>, success.continued)]
                  /\ UNCHANGED files
  /\ UNCHANGED <<config_exists, subscriptions, dry_run, pyhash, pc, i,
                 downloaded_files, all_proxies, output, generator_calls, result,
                 fs_failed, doc>>

SpecLinks == LinksInit /\ [][DownloadLinks]_vars

\* ----------------------------------------------- normalisation on its own
\* _normalize_proxy_dict on one mapping, for every combination of the fields
\* it looks at.
SampleFields ==
  [name |-> "N", type |-> "http", server |-> "h1", password |-> "pw",
   uuid |-> "u1", auth |-> "user"]

SampleMappings ==
  {[k \in ks \cup {"port"} |-> IF k = "port" THEN 443 ELSE SampleFields[k]] :
     ks \in SUBSET (DOMAIN SampleFields)}

NormalizeInit ==
  /\ all_proxies \in {<<d>> : d \in SampleMappings}
  /\ pyhash \in [{all_proxies[1]} -> HashSamples]
  /\ ("name" \in DOMAIN all_proxies[1] => pyhash[all_proxies[1]] = 7)
  /\ res = [v \in {"normalized"} |-> NotDone]
  /\ pc = "normalize"
  /\ doc = NoText
  /\ i = 1
  /\ files = [f \in AllFiles |-> Absent]
  /\ config_exists = FALSE
  /\ subscriptions = <<>>
  /\ dry_run = FALSE
  /\ downloaded_files = <<>>
  /\ output = [final |-> NoLines, preview |-> NoLines, printed |-> NoLines]
  /\ generator_calls = 0
  /\ result = "none"
  /\ fs_failed = FALSE

Normalize ==
  /\ pc = "normalize"
  /\ ~res["normalized"].done
  /\ res' = [res EXCEPT !["normalized"] =
               Done(<<normalize_proxy_dict(all_proxies[1])>>, NoneVal)]
  /\ UNCHANGED <<config_exists, subscriptions, dry_run, pyhash, pc, i, files,
                 downloaded_files, all_proxies, output, generator_calls, result,
                 fs_failed, doc>>

SpecNormalize == NormalizeInit /\ [][Normalize]_vars

\* ------------------------------------------------ rendering and re-parsing
\* _generate_proxies_lines on a list of valid records, then each rendered
\* line handed to extract_proxies as a string element of a proxies
\* collection: the whole line, or the line without its list marker "  - ".
ValidRecords ==
  {GoodA, GoodB, DupA, DatedA,
   parse_link(L_VlessPlain, <<>>).val, parse_link(L_Hy2Udp, <<>>).val}

RoundTripVariants == {"line", "entry"}

\* The string element made of a rendered line.
LineString(line, v) ==
  JsonString(IF v = "line" THEN line.text ELSE "", JsonMembers(line.obj))

RoundTripInit ==
  /\ all_proxies \in SeqsUpTo(ValidRecords, MaxProxies)
  /\ pyhash \in [NamelessDicts -> {7}]
  /\ res = [v \in RoundTripVariants |-> NotDone]
  /\ pc = "render"
  /\ doc = NoText
  /\ i = 1
  /\ files = [f \in AllFiles |-> Absent]
  /\ config_exists = FALSE
  /\ subscriptions = <<>>
  /\ dry_run = FALSE
  /\ downloaded_files = <<>>
  /\ output = [final |-> NoLines, preview |-> NoLines, printed |-> NoLines]
  /\ generator_calls = 0
  /\ result = "none"
  /\ fs_failed = FALSE

Render ==
  /\ pc = "render"
  /\ output' = [output EXCEPT !.printed = Written(generate_proxies_lines(all_proxies))]
  /\ pc' = "reparse"
  /\ UNCHANGED <<config_exists, subscriptions, dry_run, pyhash, i, files,
                 downloaded_files, all_proxies, generator_calls, result,
                 fs_failed, doc, res>>

Reparse ==
  /\ pc = "reparse"
  /\ \E v \in RoundTripVariants :
       /\ ~res[v].done
       /\ \E rendered \in {Tail(output.printed.lines)} :
          \E elems \in {[k \in 1..Len(rendered) |-> StrElem(LineString(rendered[k], v))]} :
          \E placed \in {[files EXCEPT !["a.yaml"] = Stored(Plain(DocBody(elems, TRUE, FALSE)))]} :
          \E e \in {ExtractFile(placed, "a.yaml")} :
             /\ res' = [res EXCEPT ![v] = Done(e.records, e.continued)]
             /\ files' = AfterExtract(placed, "a.yaml")
  /\ UNCHANGED <<config_exists, subscriptions, dry_run, pyhash, pc, i,
                 downloaded_files, all_proxies, output, generator_calls, result,
                 fs_failed, doc>>

RoundTripNext == Render \/ Reparse

SpecRoundTrip == RoundTripInit /\ [][RoundTripNext]_vars

\* ================================================================ claims
\* What one source contributes by itself: the records extracted from what
\* its own download stored, nothing when its download fails.
OwnRecords(src) ==
  LET success == download_subscription(src)
  IN IF success.ok THEN extract_proxies(success.stored).records ELSE <<>>

RECURSIVE ConcatOwn(_)
ConcatOwn(srcs) ==
  IF srcs = <<>> THEN <<>> ELSE OwnRecords(Head(srcs)) \o ConcatOwn(Tail(srcs))

\* The aggregation loop has run to its end.
Aggregated == pc = "generate" \/ (pc = "done" /\ downloaded_files # <<>>)

Finished == pc = "done"

\* The documents run has produced: the written file, the printed preview.
Documents == {d \in {output.final, output.printed} : d.exists}

IsText(line, s) == line.kind = "text" /\ line.text = s

LinesWithText(lines, s) == {k \in 1..Len(lines) : IsText(lines[k], s)}

\* C1: the aggregated list is the concatenation, in configured order, of
\* every source's own record list, also when entries share a file name.
C1_AggregateIsConcatenation ==
  Aggregated => all_proxies = ConcatOwn(subscriptions)

\* C2: the generated document holds a proxies section, between the proxy
\* groups and the rules, with one compact record line per aggregated
\* record, in aggregate order.
C2_DocumentListsProxies ==
  \A d \in Documents :
    \E g \in LinesWithText(d.lines, "proxy-groups:"),
       p \in LinesWithText(d.lines, "proxies:"),
       r \in LinesWithText(d.lines, "rules:") :
      /\ g < p /\ p < r
      /\ r = p + Len(all_proxies) + 1
      /\ \A k \in 1..Len(all_proxies) :
           d.lines[p + k].kind = "json" /\ d.lines[p + k].obj = all_proxies[k]

\* C3: with an empty aggregate, run returns failure, the generator is never
\* invoked and no document is produced.
C3_EmptyAggregateFails ==
  all_proxies = <<>> =>
    /\ generator_calls = 0
    /\ Documents = {}
    /\ (Finished => result = "false")

C3_Witness == Finished /\ downloaded_files # <<>> /\ all_proxies = <<>>

\* C4: run fails only when the aggregate is empty, and succeeds whenever
\* some source yields at least one valid record (the writer, which the
\* claim leaves out, is taken to work).
C4_FailsOnlyOnEmptyAggregate ==
  (Finished /\ ~fs_failed) =>
    /\ (result = "false" => all_proxies = <<>>)
    /\ ((\E k \in 1..Len(subscriptions) : OwnRecords(subscriptions[k]) # <<>>)
          => result = "true")

\* The aggregated names, in aggregate order.
P == [k \in 1..Len(all_proxies) |-> all_proxies[k]["name"]]

\* The group lines of a document: the JSON lines that follow the line
\* "proxy-groups:".
GroupsAt(lines) ==
  CHOOSE g \in 1..Len(lines) : IsText(lines[g], "proxy-groups:")

GroupCount(lines) ==
  LET g == GroupsAt(lines)
  IN CHOOSE n \in 0..(Len(lines) - g) :
       /\ \A k \in 1..n : lines[g + k].kind = "json"
       /\ (g + n = Len(lines) \/ lines[g + n + 1].kind # "json")

Groups(lines) ==
  [k \in 1..GroupCount(lines) |-> lines[GroupsAt(lines) + k].obj]

GroupsNamed(lines, name) ==
  {k \in 1..GroupCount(lines) : Groups(lines)[k]["name"] = name}

\* C5: the members of the select group ShouDongXuanZe are ZiDongXuanZe,
\* GuZhangZhuanYi and then the aggregated names in aggregate order.
C5_ManualSelectMembers ==
  \A d \in Documents :
    /\ Cardinality(GroupsNamed(d.lines, ManualSelect)) = 1
    /\ \A k \in GroupsNamed(d.lines, ManualSelect) :
         /\ Groups(d.lines)[k]["type"] = "select"
         /\ Groups(d.lines)[k]["proxies"] = <<AutoSelect, Fallback>> \o P

C5_Witness ==
  /\ output.final.exists
  /\ Len(all_proxies) >= 2
  /\ P[1] # P[2]

\* C6: the document holds exactly three groups, ShouDongXuanZe,
\* ZiDongXuanZe (url-test, members P, interval 86400) and GuZhangZhuanYi
\* (fallback, members P, interval 7200), the last two with the test URL.
C6_ThreeGroups ==
  \A d \in Documents :
    LET gs == Groups(d.lines)
    IN /\ Len(gs) = 3
       /\ gs[1]["name"] = ManualSelect
       /\ gs[2] = [name |-> AutoSelect, type |-> "url-test", proxies |-> P,
                   url |-> "http://www.gstatic.com/generate_204",
                   interval |-> 86400]
       /\ gs[3] = [name |-> Fallback, type |-> "fallback", proxies |-> P,
                   url |-> "http://www.gstatic.com/generate_204",
                   interval |-> 7200]

C6_Witness == output.final.exists /\ Len(all_proxies) >= 2

\* The rules section of a document: from the line "rules:" to the end.
RulesAt(lines) == CHOOSE r \in 1..Len(lines) : IsText(lines[r], "rules:")
RulesSection(lines) == SubSeq(lines, RulesAt(lines) + 1, Len(lines))
MatchLineText == "    - 'MATCH,ShouDongXuanZe'"

\* C7: the rules section is the fixed rule table, in its order, followed by
\* exactly one MATCH line, the last line, whatever the proxy list.
C7_RulesFixed ==
  \A d \in Documents :
    LET rs == RulesSection(d.lines)
    IN /\ Len(rs) = Len(rules) + 1
       /\ \A k \in 1..Len(rules) : IsText(rs[k], "    - '" \o rules[k] \o "'")
       /\ IsText(d.lines[Len(d.lines)], MatchLineText)
       /\ Cardinality({k \in 1..Len(d.lines) : IsText(d.lines[k], MatchLineText)}) = 1

C7_Witness == output.final.exists /\ Len(all_proxies) = 3

\* The elements of a stored document that survive extraction: mappings
\* with a server, a port and, when they carry a name, a non-empty one.
Survives(e) ==
  /\ e.kind = "map"
  /\ ("name" \in DOMAIN e.val => e.val["name"] # "")
  /\ "server" \in DOMAIN e.val /\ e.val["server"] # ""
  /\ "port" \in DOMAIN e.val

\* Counted among the elements the file parses to: a file that is no YAML
\* document has none.
SurvivorCount(f) ==
  LET b == parse_yaml_content(files[f].text)
  IN IF b.kind = "map" /\ b.hasProxies
     THEN Len(SelectSeq(b.proxies, Survives)) ELSE 0

ExtractedFiles ==
  IF pc = "extract" THEN i - 1
  ELSE IF Aggregated THEN Len(downloaded_files) ELSE 0

\* C8: every aggregated record has name, type, server and port (name and
\* server non-empty), and dropping a record drops nothing else: each file
\* contributes as many records as it has elements that pass.
C8_AggregatedValid ==
  /\ \A k \in 1..Len(all_proxies) :
       /\ {"name", "type", "server", "port"} \subseteq DOMAIN all_proxies[k]
       /\ all_proxies[k]["name"] # ""
       /\ all_proxies[k]["server"] # ""
  /\ Len(all_proxies) =
       SumSeq([k \in 1..ExtractedFiles |-> SurvivorCount(downloaded_files[k])])

C8_Witness ==
  /\ Finished /\ result = "true"
  /\ \E k \in 1..Len(downloaded_files) :
       LET b == files[downloaded_files[k]].text.body
       IN /\ Len(b.proxies) = 2
          /\ ~Survives(b.proxies[1])
          /\ Survives(b.proxies[2])
          /\ \E n \in 1..Len(all_proxies) : all_proxies[n] = b.proxies[2].val

\* A well-formed proxy mapping: name, type, server and port all present,
\* name and server non-empty.
WellFormed(e) ==
  /\ e.kind = "map"
  /\ {"name", "type", "server", "port"} \subseteq DOMAIN e.val
  /\ e.val["name"] # ""
  /\ e.val["server"] # ""

AllWellFormed(ps) == \A k \in 1..Len(ps) : WellFormed(ps[k])

\* C9: for a document whose proxies collection holds N well-formed
\* mappings, extract_proxies returns exactly these N records, in input
\* order.
C9_ExtractsAllWellFormed ==
  (res["plain"].done /\ doc.body.hasProxies /\ AllWellFormed(doc.body.proxies)) =>
    /\ Len(res["plain"].records) = Len(doc.body.proxies)
    /\ \A k \in 1..Len(doc.body.proxies) :
         res["plain"].records[k] = doc.body.proxies[k].val

C9_Witness ==
  /\ res["plain"].done
  /\ Len(doc.body.proxies) >= 2
  /\ AllWellFormed(doc.body.proxies)
  /\ doc.body.proxies[1] # doc.body.proxies[2]

SameRecords(v, w) == (res[v].done /\ res[w].done) => res[v].records = res[w].records

\* C10 as stated: for every valid document, processing its base64 wrapping
\* yields the same record list as processing the document itself.
C10_WrappingIsTransparent ==
  /\ SameRecords("plain", "wrapped")
  /\ SameRecords("dl_plain", "dl_wrapped")

\* C10 as amended: the same, for the documents whose base64 wrapping is
\* longer than 100 characters.
C10_LongWrappingIsTransparent ==
  TextLen(B64Encode(doc)) > 100 =>
    /\ SameRecords("plain", "wrapped")
    /\ SameRecords("dl_plain", "dl_wrapped")

C10_Witness ==
  /\ TextLen(B64Encode(doc)) > 100
  /\ \A v \in Variants : res[v].done
  /\ res["wrapped"].records # <<>>
  /\ res["dl_wrapped"].records # <<>>
\* C11: when the content matches the base64 heuristic and the decoding
\* fails, extraction and download go on with the original text as plaintext
\* instead of returning at the failure.
C11_DecodeFailureFallsBack ==
  \A v \in {"plain", "dl_plain"} :
    (res[v].done /\ MatchesBase64(doc) /\ ~Decodable(doc))
      => res[v].continued = Some(doc)

\* ---- share links: the lines of the list under test and their records
LinesOf(v) == LinkVariantText(v).body.lines
Lines == LinesOf("given")

\* The records collected from the first k lines.
CollectedIn(v, k) == collect_uri_proxies(SubSeq(LinesOf(v), 1, k), <<>>)
CollectedUpTo(k) == CollectedIn("given", k)

\* Line k yields a record.
ParsesIn(v, k) ==
  /\ LinesOf(v)[k].kind = "link"
  /\ parse_link(LinesOf(v)[k], CollectedIn(v, k - 1)).some
Parses(k) == ParsesIn("given", k)

ParsedLinesOf(v) == {k \in 1..Len(LinesOf(v)) : ParsesIn(v, k)}
ParsedLines == ParsedLinesOf("given")

\* The place, in the list of its source, of the record of line k.
PlaceIn(v, k) == Cardinality({j \in ParsedLinesOf(v) : j <= k})

\* The record the run holds for line k, a line that yields one.
RecordIn(v, k) == res[v].records[PlaceIn(v, k)]
RecordOf(k) == RecordIn("given", k)

DoneWith(v) == res[v].done /\ Len(res[v].records) = Cardinality(ParsedLinesOf(v))
GivenDone == DoneWith("given")

\* The name of the line's record is synthesized.
Unnamed(line) == ~line.fragment.hash \/ line.fragment.text = ""

\* C12: a link without ':port' is dropped; against the same list with the
\* link well-formed the aggregate has one record fewer and every other
\* record is the same, name included.
C12_PortlessLinkOnlyDropsItself ==
  (res["given"].done /\ res["portless"].done /\ Len(Lines) > 0
   /\ i \in ParsedLines /\ Len(Lines[i].server_addr.parts) = 2)
    => res["portless"].records =
         RemoveAt(res["given"].records, PlaceIn("given", i))

\* C12 as amended: one record fewer, and every other record the same but
\* for the synthesized names after the dropped link, which are one lower.
C12_PortlessLinkDropsAndRenumbers ==
  (res["given"].done /\ res["portless"].done /\ Len(Lines) > 0
   /\ i \in ParsedLines /\ Len(Lines[i].server_addr.parts) = 2)
    => /\ Len(res["portless"].records) = Len(res["given"].records) - 1
       /\ \A k \in ParsedLines \ {i} :
            LET old == RecordOf(k)
                place == PlaceIn("given", k) - (IF k > i THEN 1 ELSE 0)
                new == res["portless"].records[place]
            IN IF k > i /\ Unnamed(Lines[k])
               THEN /\ new = [old EXCEPT !["name"] = "Proxy_" \o ToString(place)]
                    /\ old["name"] = "Proxy_" \o ToString(place + 1)
               ELSE new = old

C12_Witness ==
  /\ res["given"].done /\ res["portless"].done
  /\ Len(Lines) = 2 /\ i = 1
  /\ ParsedLines = {1, 2}
  /\ Len(Lines[1].server_addr.parts) = 2
  /\ Unnamed(Lines[2])
  /\ Len(res["portless"].records) = 1

\* C13: rendering each record as a proxy-list line and re-parsing each line
\* as an embedded string reproduces the records, in order.
C13_RoundTripOfLines ==
  res["line"].done => res["line"].records = all_proxies

\* C13 as amended: the round trip holds for the line without its list
\* marker "  - ", when every field of the records is a JSON value.
C13_RoundTripOfEntries ==
  (res["entry"].done /\ \A k \in 1..Len(all_proxies) : JsonSerializable(all_proxies[k]))
    => res["entry"].records = all_proxies

C13_Witness ==
  /\ res["entry"].done
  /\ Len(all_proxies) = 2
  /\ all_proxies[1] # all_proxies[2]
  /\ "ws-opts" \in DOMAIN all_proxies[2]
  /\ JsonSerializable(all_proxies[1])
  /\ Len(res["entry"].records) = 2

\* The number of times a name occurs in a list of names.
Count(name, names) == Cardinality({k \in 1..Len(names) : names[k] = name})

\* C14: nothing is deduplicated by name: the aggregate is as long as the
\* sum of the sources' valid record counts, and every group lists every
\* name as many times as the aggregate holds it.
C14_NoDeduplication ==
  Aggregated =>
    /\ Len(all_proxies) =
         SumSeq([k \in 1..Len(subscriptions) |-> Len(OwnRecords(subscriptions[k]))])
    /\ \A d \in Documents :
         \A g \in 1..GroupCount(d.lines) :
           \A k \in 1..Len(P) :
             Count(P[k], Groups(d.lines)[g]["proxies"]) = Count(P[k], P)

\* C15: two runs over the same sources, serving the same payloads in the
\* same configured order, produce the same document, synthesized names
\* included.
C15_SameDocumentOnRerun ==
  (Finished /\ res # <<>> /\ result = "true" /\ res[1].result = "true"
   /\ ~fs_failed /\ ~res[1].fs_failed)
    => output = res[1].output

\* C16: a mapping without a type gets trojan when it has password and
\* server, else vmess when it has uuid, else socks5 when it has auth, else
\* unknown; a mapping with a type keeps it; no other field changes.
C16_TypeInferencePrecedence ==
  res["normalized"].done =>
    LET proxy == all_proxies[1]
        normalized == res["normalized"].records[1]
        Has(k) == k \in DOMAIN proxy
    IN /\ normalized["type"] =
            (IF Has("type") THEN proxy["type"]
             ELSE IF Has("password") /\ Has("server") THEN "trojan"
             ELSE IF Has("uuid") THEN "vmess"
             ELSE IF Has("auth") THEN "socks5"
             ELSE "unknown")
       /\ DOMAIN normalized = DOMAIN proxy \cup {"name", "type"}
       /\ \A k \in DOMAIN proxy : normalized[k] = proxy[k]

C16_Witness ==
  /\ res["normalized"].done
  /\ DOMAIN all_proxies[1] = {"name", "server", "port", "password", "uuid", "auth"}
  /\ res["normalized"].records[1]["type"] = "trojan"

\* The lines among the first k that reach the naming step: the lines with
\* "://", whatever becomes of them afterwards.
NamedUpTo(k) == Cardinality({j \in 1..k : Lines[j].kind = "link"})

\* C17: a link without a fragment is named Proxy_n, n counting the
\* share-link lines of its source that reached the naming step, this line
\* included.
C17_NameCountsLinesNamed ==
  GivenDone =>
    \A k \in ParsedLines :
      ~Lines[k].fragment.hash
        => RecordOf(k)["name"] = "Proxy_" \o ToString(NamedUpTo(k))

\* C17 as amended: n is the place of the record in the list of its source,
\* one more than the number of lines before it that yielded a record; each
\* source (each download) counts from 1.
C17_NameCountsRecords ==
  \A v \in LinkVariants :
    DoneWith(v) =>
      \A k \in ParsedLinesOf(v) :
        ~LinesOf(v)[k].fragment.hash
          => RecordIn(v, k)["name"] =
               "Proxy_" \o ToString(1 + Cardinality({j \in ParsedLinesOf(v) : j < k}))

C17_Witness ==
  /\ GivenDone
  /\ Len(Lines) = 2
  /\ Lines[1].kind = "link" /\ ~Parses(1)
  /\ Parses(2) /\ ~Lines[2].fragment.hash
  /\ RecordOf(2)["name"] = "Proxy_1"

\* The certificate-skip keys, in the order the claim lists them.
CertSkipKeys == <<"skip-cert-verify", "allowinsecure", "allowInsecure", "insecure">>

\* C18: the certificate-skip field is (value == "1") for the first of the
\* keys skip-cert-verify, allowinsecure, allowInsecure, insecure that the
\* query carries, and absent when it carries none.
C18_FirstCertSkipKeyWins ==
  GivenDone =>
    \A k \in ParsedLines :
      LET params == parse_params(Lines[k].query)
          present == {n \in 1..Len(CertSkipKeys) : CertSkipKeys[n] \in DOMAIN params}
          first == CHOOSE n \in present : \A o \in present : n <= o
      IN IF present = {} THEN "skip-cert-verify" \notin DOMAIN RecordOf(k)
         ELSE /\ "skip-cert-verify" \in DOMAIN RecordOf(k)
              /\ RecordOf(k)["skip-cert-verify"] = (params[CertSkipKeys[first]] = "1")

\* C19: the userinfo of a trojan link is its password, colons included;
\* that of an ss link is method and password, split at the last colon, and
\* is ignored without a colon; that of a vless link is uuid and, after the
\* first colon, flow (a flow parameter of the query replaces it).
C19_UserinfoPerProtocol ==
  GivenDone =>
    \A k \in ParsedLines :
      LET line == Lines[k]
          r == RecordOf(k)
          parts == line.userinfo.parts
          text == Join(parts, ":")
          present == line.userinfo.at /\ text # ""
          rest == Join(Tail(parts), ":")
      IN /\ (line.scheme = "trojan" /\ present)
              => ("password" \in DOMAIN r /\ r["password"] = text)
         /\ line.scheme = "ss"
              => IF present /\ Len(parts) >= 2
                 THEN /\ {"method", "password"} \subseteq DOMAIN r
                      /\ r["method"] = Join(Front(parts), ":")
                      /\ r["password"] = Last(parts)
                 ELSE {"method", "password"} \cap DOMAIN r = {}
         /\ (line.scheme = "vless" /\ present)
              => /\ "uuid" \in DOMAIN r /\ r["uuid"] = parts[1]
                 /\ "flow" \notin DOMAIN parse_params(line.query)
                      => IF Len(parts) >= 2 /\ rest # ""
                         THEN "flow" \in DOMAIN r /\ r["flow"] = rest
                         ELSE "flow" \notin DOMAIN r

C19_Witness ==
  /\ GivenDone
  /\ Lines = <<L_Ss, L_Vless>>
  /\ RecordOf(1)["method"] = "aes:gcm" /\ RecordOf(1)["password"] = "pw123"
  /\ RecordOf(2)["uuid"] = "u1" /\ RecordOf(2)["flow"] = "xtls:vision"

\* C20: a record of a hysteria2 link always has udp: (udp == "1") when the
\* query has the parameter, true otherwise; a record of any other protocol
\* has udp only when the query has the parameter.
C20_Hysteria2UdpDefault ==
  GivenDone =>
    \A k \in ParsedLines :
      LET r == RecordOf(k)
          params == parse_params(Lines[k].query)
          given == "udp" \in DOMAIN params
      IN /\ given => ("udp" \in DOMAIN r /\ r["udp"] = (params["udp"] = "1"))
         /\ ~given => IF Lines[k].scheme = "hysteria2"
                       THEN "udp" \in DOMAIN r /\ r["udp"] = TRUE
                       ELSE "udp" \notin DOMAIN r

C20_Witness ==
  /\ GivenDone
  /\ Lines = <<L_Hy2, L_Hy2Udp>>
  /\ RecordOf(1)["udp"] = TRUE
  /\ RecordOf(2)["udp"] = FALSE

\* C21: a line whose parse raises is skipped alone: the records of the
\* source are those of the same list without the line, nothing of the line
\* among them, the records before it and after it as they are.
C21_ErrorSkipsLineOnly ==
  (res["given"].done /\ res["without"].done /\ Len(Lines) >= i
   /\ LineRaises(Lines[i]))
    => /\ res["given"].records = res["without"].records
       /\ \A k \in ParsedLines \ {i} :
            RecordOf(k) = RecordIn("without", IF k > i THEN k - 1 ELSE k)

C21_Witness ==
  /\ res["given"].done /\ res["without"].done
  /\ i = 1 /\ Len(Lines) = 2
  /\ LineRaises(Lines[1]) /\ Lines[1].scheme = "vless"
  /\ Parses(2) /\ Unnamed(Lines[2])
  /\ Len(res["given"].records) = 1
  /\ res["given"].records[1]["name"] = "Proxy_1"

\* The content served is neither a structured document nor a list of share
\* links of which one at least yields a record.
Ambiguous(src) ==
  /\ src.url_ok /\ src.resp_ok
  /\ LET content == IF MatchesBase64(src.text) /\ Decodable(src.text)
                    THEN B64Decode(src.text) ELSE src.text
     IN \/ content.body.kind \in {"junk", "b64bad", "empty"}
        \/ /\ content.body.kind = "links"
           /\ collect_uri_proxies(content.body.lines, <<>>) = <<>>

C23_ExtractionWritesNoFile ==
  \A f \in FileNames : ~files[DecodedName(f)].exists

\* supported_proxy_types, and the type given when none can be inferred.
SupportedProxyTypes ==
  {"ss", "ssr", "vmess", "vless", "trojan", "socks5", "http", "https",
   "hysteria", "hysteria2", "snell"}

\* C24: every record of the aggregated list has a type among the supported
\* ones or unknown.
C24_TypesAreSupported ==
  \A k \in 1..Len(all_proxies) :
    all_proxies[k]["type"] \in SupportedProxyTypes \cup {"unknown"}

\* C25: the record of a vless link has alterId 0; its cipher is the
\* encryption parameter when the query has one and "auto" otherwise; its
\* flow is the flow parameter when the query has one, otherwise the
\* non-empty text after the first colon of the userinfo, otherwise absent.
C25_VlessMappingOrder ==
  GivenDone =>
    \A k \in ParsedLines :
      Lines[k].scheme = "vless" =>
        LET r == RecordOf(k)
            params == parse_params(Lines[k].query)
            parts == Lines[k].userinfo.parts
            rest == Join(Tail(parts), ":")
            inUserinfo == /\ Lines[k].userinfo.at /\ Len(parts) >= 2
                          /\ rest # ""
        IN /\ "alterId" \in DOMAIN r /\ r["alterId"] = 0
           /\ "cipher" \in DOMAIN r
           /\ r["cipher"] = (IF "encryption" \in DOMAIN params
                             THEN params["encryption"] ELSE "auto")
           /\ IF "flow" \in DOMAIN params
              THEN "flow" \in DOMAIN r /\ r["flow"] = params["flow"]
              ELSE IF inUserinfo
              THEN "flow" \in DOMAIN r /\ r["flow"] = rest
              ELSE "flow" \notin DOMAIN r

C25_Witness ==
  /\ GivenDone
  /\ Lines = <<L_VlessEnc, L_VlessPlain>>
  /\ RecordOf(1)["cipher"] = "none" /\ RecordOf(1)["flow"] = "vision"
  /\ RecordOf(1)["alterId"] = 0
  /\ RecordOf(2)["cipher"] = "auto" /\ "flow" \notin DOMAIN RecordOf(2)

\* C26: in dry-run mode no step of run creates or modifies the final
\* output file or any other file, but for the preview file, which is gone
\* when the preview has been printed.
C26_DryRunWritesOnlyPreview ==
  [][dry_run => /\ output'.final = output.final
                /\ files' = files
                /\ output'.printed.exists => ~output'.preview.exists]_vars

\* C26 as amended: in dry-run mode no step of run creates or modifies the
\* final output file, and the preview file beside it is gone when the
\* preview has been printed; the download directory is written as in any
\* run.
C26_DryRunLeavesOutputAlone ==
  [][dry_run => /\ output'.final = output.final
                /\ output'.printed.exists => ~output'.preview.exists]_vars

C26_Witness ==
  /\ dry_run /\ Finished /\ result = "true"
  /\ output.printed.exists /\ ~output.preview.exists /\ ~output.final.exists
  /\ generator_calls = 1
  /\ \E f \in FileNames : files[f].exists

Served(src) ==
  IF MatchesBase64(src.text) /\ Decodable(src.text)
  THEN B64Decode(src.text) ELSE src.text

HasLines(content) ==
  content.wraps = 0 /\ content.body.kind \in {"links", "mixed"}

\* C28: when a line of the payload yields a record, the file stored is a
\* generated document whose proxies are the records of the links, in line
\* order, and nothing else; when no line does, the payload is not
\* rewritten: the file stored, if one is, is the payload.
C28_LinkRecordsReplaceContent ==
  [][(pc = "download" /\ i <= Len(subscriptions)
      /\ subscriptions[i].url_ok /\ subscriptions[i].resp_ok
      /\ HasLines(Served(subscriptions[i])))
       => LET src == subscriptions[i]
              uri_proxies == collect_uri_proxies(Served(src).body.lines, <<>>)
              stored == files'[src.filename]
          IN IF uri_proxies # <<>>
             THEN /\ stored.exists
                  /\ stored.text.wraps = 0 /\ stored.text.body.kind = "doc"
                  /\ stored.text.body.proxies =
                       [k \in 1..Len(uri_proxies) |-> MapElem(uri_proxies[k])]
                  /\ downloaded_files' = Append(downloaded_files, src.filename)
             ELSE \/ stored = Stored(Served(src))
                  \/ stored = files[src.filename]]_vars

C28_Witness ==
  /\ pc = "download" /\ i = 2
  /\ subscriptions[1].text = T_M
  /\ LET body == files[subscriptions[1].filename].text.body
     IN /\ body.kind = "doc" /\ Len(body.proxies) = 2
        /\ body.proxies[1].val["type"] = "ss"
        /\ body.proxies[1].val["name"] = "Proxy_1"
        /\ body.proxies[2].val["name"] = "My Node"
        /\ \A k \in 1..2 : body.proxies[k] # MapElem(GoodA)

\* C29: run always ends, with True or False and never with an exception
\* raised to the caller: a missing or empty subscription config, no
\* download that succeeded, no record extracted, an output directory that
\* cannot be made and a document that cannot be written each end in False.
C29_RunTerminatesWithBoolean ==
  /\ <>Finished
  /\ [](Finished =>
         /\ result \in {"true", "false"}
         /\ (~config_exists \/ subscriptions = <<>>) => result = "false"
         /\ downloaded_files = <<>> => result = "false"
         /\ all_proxies = <<>> => result = "false"
         /\ (fs_failed /\ generator_calls = 0) => result = "false"
         /\ (fs_failed /\ ~dry_run) => result = "false")

C29_Witness ==
  /\ Finished
  /\ result = "false"
  /\ fs_failed
  /\ generator_calls = 1
  /\ all_proxies # <<>>
  /\ Len(downloaded_files) < Len(subscriptions)

\* C30: within one source, two records whose names were both synthesized
\* carry different names Proxy_n, whatever lines (parsed, skipped, failed)
\* stand before and between them.
C30_SynthesizedNamesDiffer ==
  \A v \in LinkVariants :
    res[v].done =>
      \A j \in ParsedLinesOf(v) : \A k \in ParsedLinesOf(v) :
        (j < k /\ Unnamed(LinesOf(v)[j]) /\ Unnamed(LinesOf(v)[k]))
          => /\ Len(res[v].records) = Cardinality(ParsedLinesOf(v))
             /\ RecordIn(v, j)["name"] # RecordIn(v, k)["name"]

C30_Witness ==
  /\ GivenDone
  /\ Len(Lines) = 3
  /\ Parses(1) /\ Unnamed(Lines[1])
  /\ LineRaises(Lines[2])
  /\ Parses(3) /\ Unnamed(Lines[3])
  /\ RecordOf(1)["name"] = "Proxy_1"
  /\ RecordOf(3)["name"] = "Proxy_2"

====
